---------------------------- MODULE Spec2Model ----------------------------
(***************************************************************************)
(* Model of the media-play-records History/Calendar components and of the  *)
(* merge engine they use.                                                  *)
(*                                                                         *)
(* Time.  An instant is an integer number of milliseconds counted from     *)
(* 2024-03-01T00:00:00Z (day RefEpochDay of the Unix epoch); the ISO       *)
(* strings the code stores denote such instants and `new Date(s).getTime()`*)
(* reads them back.  Local time is UTC plus the fixed offset `tz`          *)
(* (minutes) of the environment the page runs in.                          *)
(*                                                                         *)
(* Strings that the code normalises (title, channelName) are sequences of  *)
(* one-character strings.  An optional value is <<>> (undefined / null)    *)
(* or <<v>>.                                                               *)
(***************************************************************************)
EXTENDS Integers, Sequences, FiniteSets, TLC

VARIABLES
    tz,                \* local-time offset of the environment, minutes east of UTC
    \* ---- one call of buildDisplayRecords(records, mergeConsecutive) ----
    argRecords,        \* the `records` argument
    argMerge,          \* the `mergeConsecutive` argument
    result,            \* <<>> before the call returns, <<returned sequence>> after
    \* ---- the page: record store, History state, Calendar state ----
    store,             \* object store "playbackRecords": sessionId -> record
    dailyGoals,        \* object store "dailyGoals": date -> DailyGoal
    loading,           \* History: useState loading
    activeTab,         \* History: useState activeTab
    records,           \* History: useState records
    mergeDisplay,      \* History: useState mergeDisplay
    languageFilter,    \* History: useState languageFilter (prop of Calendar)
    dateFilter,        \* History: useState dateFilter
    goalInputs,        \* History: useState goalInputs (prop of Calendar)
    dailyDurations,    \* Calendar: useState dailyDurations (dateStr -> language -> seconds)
    languageVisibility,\* History: useState languageVisibility
    selectedRecords,   \* History: useState selectedRecords (array of sessionIds)
    editingRecord,     \* History: useState editingRecord (with showEditEntry): <<>> or <<record>>
    showManualEntry,   \* History: useState showManualEntry
    inFlight,          \* goal updates that have read the snapshot and not yet written
    calls,             \* the write calls the latest handler made on databaseService
    \* ---- one call of getDailyGoal(date) ----
    argDate,           \* the `date` argument
    goalResult,        \* <<>> before the call resolves, <<resolved value>> after
    \* ---- the objects one call of buildDisplayRecords works on ----
    heap,              \* the objects by address; the input records come first
    \* ---- IndexedDBService: the connection ----
    db,                \* this.db: <<>> (null) or <<connection>>
    opened,            \* number of indexedDB.open calls made so far
    sinceEvent,        \* how many of them since the last close or versionchange event
    closed,            \* the connections that have been closed
    operations         \* the store operations under way

vars == <<tz, argRecords, argMerge, result, store, dailyGoals, loading, activeTab,
          records, mergeDisplay, languageFilter, dateFilter, goalInputs,
          dailyDurations, languageVisibility, selectedRecords, editingRecord,
          showManualEntry, inFlight, calls, argDate, goalResult, heap, db,
          opened, sinceEvent, closed, operations>>

callVars == <<argRecords, argMerge, result>>
queryVars == <<argDate, goalResult>>
connectionVars == <<db, opened, sinceEvent, closed, operations>>
formVars == <<selectedRecords, editingRecord, showManualEntry>>
serviceVars == <<inFlight, calls>>
pageVars == <<store, dailyGoals, loading, activeTab, records, mergeDisplay,
              languageFilter, dateFilter, goalInputs, dailyDurations,
              languageVisibility, formVars, serviceVars>>

-----------------------------------------------------------------------------
(* Bounds of the model *)

MaxRecords == 3        \* longest argument sequence of one buildDisplayRecords call
MaxStrLen == 3         \* longest title drawn when the merge key is examined
MaxStored == 2         \* most records held by the store in the aggregation runs

-----------------------------------------------------------------------------
(* Sequences helpers *)

RECURSIVE SumSeq(_)
SumSeq(s) == IF s = <<>> THEN 0 ELSE Head(s) + SumSeq(Tail(s))

RECURSIVE Flatten(_)
Flatten(ss) == IF ss = <<>> THEN <<>> ELSE Head(ss) \o Flatten(Tail(ss))

Range(s) == {s[i] : i \in DOMAIN s}

SeqsUpTo(S, n) == UNION {[1..k -> S] : k \in 0..n}

MinOf(a, b) == IF a < b THEN a ELSE b
MaxOf(a, b) == IF a > b THEN a ELSE b
Abs(a) == IF a < 0 THEN -a ELSE a

-----------------------------------------------------------------------------
(* JavaScript Date: local calendar fields of an instant *)

MsPerMinute == 60 * 1000
MsPerHour == 1000 * 60 * 60
MsPerDay == 24 * MsPerHour
\* 2024-03-01 counted in days from 1970-01-01: 54 years, 13 leap days, Jan + Feb
RefEpochDay == 54 * 365 + 13 + 31 + 29

\* Proleptic Gregorian date of a day number (days from 1970-01-01),
\* as [year, month (0-based, as getMonth), date].
CivilFromDays(z0) ==
    LET z == z0 + 719468
        era == z \div 146097
        doe == z - era * 146097
        yoe == (doe - doe \div 1460 + doe \div 36524 - doe \div 146096) \div 365
        doy == doe - (365 * yoe + yoe \div 4 - yoe \div 100)
        mp == (5 * doy + 2) \div 153
        d == doy - (153 * mp + 2) \div 5 + 1
        m == IF mp < 10 THEN mp + 3 ELSE mp - 9
        y == yoe + era * 400 + (IF m <= 2 THEN 1 ELSE 0)
    IN [year |-> y, month |-> m - 1, date |-> d]

\* Day number of the local calendar day an instant falls on.
LocalDayNumber(ms) == RefEpochDay + ((ms + tz * MsPerMinute) \div MsPerDay)

getFullYear(ms) == CivilFromDays(LocalDayNumber(ms)).year
getMonth(ms) == CivilFromDays(LocalDayNumber(ms)).month
getDate(ms) == CivilFromDays(LocalDayNumber(ms)).date

-----------------------------------------------------------------------------
(* JavaScript String: trim, toLowerCase, truthiness *)

IsWhitespace(c) == c \in {" ", "\t", "\n"}

toLowerChar(c) ==
    CASE c = "A" -> "a"
      [] c = "B" -> "b"
      [] c = "C" -> "c"
      [] OTHER -> c

toLowerCase(s) == [i \in DOMAIN s |-> toLowerChar(s[i])]

RECURSIVE trimStart(_)
trimStart(s) ==
    IF s # <<>> /\ IsWhitespace(Head(s)) THEN trimStart(Tail(s)) ELSE s

RECURSIVE trimEnd(_)
trimEnd(s) ==
    IF s # <<>> /\ IsWhitespace(s[Len(s)])
    THEN trimEnd(SubSeq(s, 1, Len(s) - 1))
    ELSE s

trim(s) == trimEnd(trimStart(s))

\* An optional string is falsy when undefined/null or the empty string.
Falsy(opt) == opt = <<>> \/ opt[1] = <<>>

\* `opt || ""`
OrEmpty(opt) == IF Falsy(opt) THEN <<>> ELSE opt[1]

-----------------------------------------------------------------------------
(* Data model: PlaybackRecord, DisplayRecord *)

LANGUAGES == <<"cantonese", "english", "japanese", "spanish">>
KnownLanguages == Range(LANGUAGES)

PlaybackRecord(sessionId, title, url, language, duration, date, channelName, channelLogo) ==
    [sessionId |-> sessionId, title |-> title, url |-> url, language |-> language,
     duration |-> duration, date |-> date,
     channelName |-> channelName, channelLogo |-> channelLogo]

\* The PlaybackRecord fields a DisplayRecord carries ({...record}).
rawFields == {"sessionId", "title", "url", "language", "duration", "date",
              "channelName", "channelLogo"}

-----------------------------------------------------------------------------
(* Merge engine *)

\* Variant: the key built from the URL, `${record.url || record.title}-${record.language}`.
getVideoKeyByUrl(record) ==
    (IF record.url # <<>> THEN record.url ELSE record.title) \o <<"-", record.language>>

\* `${channelKey}::${titleKey}::${record.language}`
getVideoKey(record) ==
    LET channelKey == toLowerCase(trim(OrEmpty(record.channelName)))
        titleKey == toLowerCase(trim(record.title))
    IN channelKey \o <<":", ":">> \o titleKey \o <<":", ":">> \o <<record.language>>

startMsOf(record) == record.date
endMsOf(record) == record.date + record.duration * 1000

\* The DisplayRecord a record becomes on its own (merge disabled, or a new
\* accumulator).
singleDisplayRecord(record) ==
    [sessionId |-> record.sessionId, title |-> record.title, url |-> record.url,
     language |-> record.language, duration |-> record.duration,
     date |-> record.date, channelName |-> record.channelName,
     channelLogo |-> record.channelLogo,
     mergedSessionIds |-> <<record.sessionId>>,
     totalDuration |-> record.duration,
     startDate |-> record.date,
     isMerged |-> FALSE,
     spanStart |-> startMsOf(record),
     spanEnd |-> endMsOf(record),
     segments |-> <<[start |-> startMsOf(record), end |-> endMsOf(record)]>>]

\* merged.push({...record, isMerged: record.mergedSessionIds.length > 1})
pushCurrent(merged, current) ==
    IF current = <<>> THEN merged
    ELSE Append(merged,
                [current[1] EXCEPT !.isMerged = Len(current[1].mergedSessionIds) > 1])

crossesDay(prevDate, currentDate) ==
    \/ getFullYear(prevDate) # getFullYear(currentDate)
    \/ getMonth(prevDate) # getMonth(currentDate)
    \/ getDate(prevDate) # getDate(currentDate)

\* gapHours > 2, with gapHours = |prev - current| / (1000 * 60 * 60)
gapExceedsTwoHours(prevDate, currentDate) ==
    Abs(prevDate - currentDate) > 2 * MsPerHour

prevDateOf(current, lastMergedDate) ==
    IF lastMergedDate # <<>> THEN lastMergedDate[1] ELSE current.startDate

\* Variant: the titles are compared, not the keys.
shouldMergeByTitle(current, lastMergedDate, record) ==
    /\ toLowerCase(trim(current.title)) = toLowerCase(trim(record.title))
    /\ ~(crossesDay(prevDateOf(current, lastMergedDate), record.date)
         /\ gapExceedsTwoHours(prevDateOf(current, lastMergedDate), record.date))

\* Variant: a gap of exactly two hours already counts as exceeding.
shouldMergeAtLeastTwoHours(current, lastMergedDate, record) ==
    /\ getVideoKey(current) = getVideoKey(record)
    /\ ~(crossesDay(prevDateOf(current, lastMergedDate), record.date)
         /\ Abs(prevDateOf(current, lastMergedDate) - record.date) >= 2 * MsPerHour)

shouldMerge(current, lastMergedDate, record) ==
    /\ getVideoKey(current) = getVideoKey(record)
    /\ ~(crossesDay(prevDateOf(current, lastMergedDate), record.date)
         /\ gapExceedsTwoHours(prevDateOf(current, lastMergedDate), record.date))

\* Variant: channelName and channelLogo are taken from every merged record.
mergeIntoLatestChannel(current, record) ==
    [current EXCEPT
        !.totalDuration = @ + record.duration,
        !.startDate = IF startMsOf(record) < @ THEN record.date ELSE @,
        !.mergedSessionIds = Append(@, record.sessionId),
        !.spanStart = MinOf(@, startMsOf(record)),
        !.spanEnd = MaxOf(@, endMsOf(record)),
        !.segments = Append(@, [start |-> startMsOf(record), end |-> endMsOf(record)]),
        !.channelLogo = record.channelLogo,
        !.channelName = record.channelName]

\* Variant: totalDuration is overwritten instead of accumulated.
mergeIntoOverwritingDuration(current, record) ==
    [current EXCEPT
        !.totalDuration = record.duration,
        !.startDate = IF startMsOf(record) < @ THEN record.date ELSE @,
        !.mergedSessionIds = Append(@, record.sessionId),
        !.spanStart = MinOf(@, startMsOf(record)),
        !.spanEnd = MaxOf(@, endMsOf(record)),
        !.segments = Append(@, [start |-> startMsOf(record), end |-> endMsOf(record)]),
        !.channelLogo = IF Falsy(@) THEN record.channelLogo ELSE @,
        !.channelName = IF Falsy(@) THEN record.channelName ELSE @]

\* Variant: the span ends where the last merged record ends.
mergeIntoLastEnd(current, record) ==
    [current EXCEPT
        !.totalDuration = @ + record.duration,
        !.startDate = IF startMsOf(record) < @ THEN record.date ELSE @,
        !.mergedSessionIds = Append(@, record.sessionId),
        !.spanStart = MinOf(@, startMsOf(record)),
        !.spanEnd = endMsOf(record),
        !.segments = Append(@, [start |-> startMsOf(record), end |-> endMsOf(record)]),
        !.channelLogo = IF Falsy(@) THEN record.channelLogo ELSE @,
        !.channelName = IF Falsy(@) THEN record.channelName ELSE @]

\* The body of `if (shouldMerge) { ... }`: the accumulator after absorbing record.
mergeInto(current, record) ==
    [current EXCEPT
        !.totalDuration = @ + record.duration,
        !.startDate = IF startMsOf(record) < @ THEN record.date ELSE @,
        !.mergedSessionIds = Append(@, record.sessionId),
        !.spanStart = MinOf(@, startMsOf(record)),
        !.spanEnd = MaxOf(@, endMsOf(record)),
        !.segments = Append(@, [start |-> startMsOf(record), end |-> endMsOf(record)]),
        !.channelLogo = IF Falsy(@) THEN record.channelLogo ELSE @,
        !.channelName = IF Falsy(@) THEN record.channelName ELSE @]

\* One iteration of records.forEach over the loop state
\* [merged, current, lastMergedDate].
forEachStep(st, record) ==
    IF st.current # <<>>
    THEN IF shouldMerge(st.current[1], st.lastMergedDate, record)
         THEN [merged |-> st.merged,
               current |-> <<mergeInto(st.current[1], record)>>,
               lastMergedDate |-> <<record.date>>]
         ELSE [merged |-> pushCurrent(st.merged, st.current),
               current |-> <<singleDisplayRecord(record)>>,
               lastMergedDate |-> <<record.date>>]
    ELSE [merged |-> st.merged,
          current |-> <<singleDisplayRecord(record)>>,
          lastMergedDate |-> <<record.date>>]

RECURSIVE forEachRecords(_, _)
forEachRecords(st, rs) ==
    IF rs = <<>> THEN st ELSE forEachRecords(forEachStep(st, Head(rs)), Tail(rs))

\* Variant: the accumulator left at the end of the input is not emitted.
buildDisplayRecordsWithoutLastPush(rs, mergeConsecutive) ==
    IF ~mergeConsecutive
    THEN [i \in DOMAIN rs |-> singleDisplayRecord(rs[i])]
    ELSE forEachRecords(
             [merged |-> <<>>, current |-> <<>>, lastMergedDate |-> <<>>], rs).merged

\* Variant: the mergeConsecutive flag is ignored.
buildDisplayRecordsAlwaysMerging(rs, mergeConsecutive) ==
    LET final == forEachRecords(
                     [merged |-> <<>>, current |-> <<>>, lastMergedDate |-> <<>>], rs)
    IN pushCurrent(final.merged, final.current)

buildDisplayRecords(rs, mergeConsecutive) ==
    IF ~mergeConsecutive
    THEN [i \in DOMAIN rs |-> singleDisplayRecord(rs[i])]
    ELSE LET final == forEachRecords(
                          [merged |-> <<>>, current |-> <<>>, lastMergedDate |-> <<>>], rs)
         IN pushCurrent(final.merged, final.current)

-----------------------------------------------------------------------------
(* The page after construction (before any effect has run) *)

DEFAULT_DAILY_GOAL == [l \in KnownLanguages |-> 0]

DEFAULT_LANGUAGE_VISIBILITY == [l \in KnownLanguages |-> TRUE]

EmptyStore == <<>>

\* The component state set by the useState initialisers.
ComponentInit ==
    /\ loading = TRUE
    /\ activeTab = "records"
    /\ records = <<>>
    /\ mergeDisplay = TRUE
    /\ languageFilter = "all"
    /\ dateFilter = "all"
    /\ goalInputs = DEFAULT_DAILY_GOAL
    /\ dailyDurations = <<>>
    /\ languageVisibility = DEFAULT_LANGUAGE_VISIBILITY
    /\ selectedRecords = <<>>
    /\ editingRecord = <<>>
    /\ showManualEntry = FALSE

\* No request is under way.
IdleInit ==
    /\ inFlight = <<>>
    /\ calls = <<>>
    /\ argDate = 0
    /\ goalResult = <<>>
    /\ heap = <<>>
    /\ db = <<>>
    /\ opened = 0
    /\ sinceEvent = 0
    /\ closed = {}
    /\ operations = <<>>

PageInit ==
    /\ store = EmptyStore
    /\ dailyGoals = EmptyStore
    /\ ComponentInit
    /\ IdleInit

TimeZones == {0, 60}

-----------------------------------------------------------------------------
(* One call of buildDisplayRecords on a drawn argument *)

\* A URL is the sequence of its origin-and-path followed by its query
\* parameters; the empty sequence is a missing URL.
ManualUrl == <<"manual-entry">>

At(h, m) == h * MsPerHour + m * MsPerMinute

\* 10:00 and 10:20 on day 0, 23:00 on day 0, 01:00 on day 1 and one
\* millisecond later (UTC).
MergeDates == {At(10, 0), At(10, 20), At(23, 0), At(25, 0), At(25, 0) + 1}
MergeDurations == {300, 600}

\* Title "a" at every date with every duration; title "b" at two dates.
MergeChoices ==
    [title : {<<"a">>}, date : MergeDates, duration : MergeDurations]
    \cup [title : {<<"b">>}, date : {At(10, 20), At(25, 0)}, duration : {300}]

\* The i-th record of an argument carries sessionId i.
MergeArgument(f) ==
    [i \in DOMAIN f |->
        PlaybackRecord(i, f[i].title, ManualUrl, "english", f[i].duration,
                       f[i].date, <<>>, <<>>)]

InitMerge ==
    /\ tz \in TimeZones
    /\ argRecords \in {MergeArgument(f) : f \in SeqsUpTo(MergeChoices, MaxRecords)}
    /\ argMerge \in BOOLEAN
    /\ result = <<>>
    /\ PageInit

Call ==
    /\ result = <<>>
    /\ result' = <<buildDisplayRecords(argRecords, argMerge)>>
    /\ UNCHANGED <<tz, argRecords, argMerge, pageVars, queryVars, heap, connectionVars>>

NextCall == Call

SpecMerge == InitMerge /\ [][NextCall]_vars

-----------------------------------------------------------------------------
(* Properties of one buildDisplayRecords call *)

Returned == result # <<>>
Out == result[1]

ArgIds == [i \in DOMAIN argRecords |-> argRecords[i].sessionId]

\* The input records whose sessionId is listed in a DisplayRecord.
Constituents(d) ==
    {i \in DOMAIN argRecords : argRecords[i].sessionId \in Range(d.mergedSessionIds)}

\* The output position of the DisplayRecord that lists input record i.
GroupOf(i) ==
    CHOOSE g \in DOMAIN Out : argRecords[i].sessionId \in Range(Out[g].mergedSessionIds)

\* The first input record of the group input record i belongs to.
GroupFirst(i) ==
    CHOOSE j \in DOMAIN argRecords :
        /\ GroupOf(j) = GroupOf(i)
        /\ \A k \in DOMAIN argRecords : GroupOf(k) = GroupOf(i) => j <= k

SetMin(S) == CHOOSE x \in S : \A y \in S : x <= y
SetMax(S) == CHOOSE x \in S : \A y \in S : x >= y

RECURSIVE SumOver(_, _)
SumOver(S, f) ==
    IF S = {} THEN 0
    ELSE LET x == CHOOSE y \in S : TRUE IN f[x] + SumOver(S \ {x}, f)

TwoHoursMs == 2 * 60 * 60 * 1000

DayDiffers(a, b) == LocalDayNumber(a) # LocalDayNumber(b)

\* C3: with merge enabled the mergedSessionIds of the output, concatenated in
\* output order, are exactly the input sessionIds in input order; every group
\* is non-empty, so the last accumulator is emitted and an empty input gives
\* an empty output.
C3_Partition ==
    (Returned /\ argMerge) =>
        /\ Flatten([g \in DOMAIN Out |-> Out[g].mergedSessionIds]) = ArgIds
        /\ \A g \in DOMAIN Out : Len(Out[g].mergedSessionIds) >= 1
        /\ (argRecords = <<>> => Out = <<>>)

C3_Witness ==
    /\ Returned /\ argMerge
    /\ Len(argRecords) = 3
    /\ Len(Out) = 2
    /\ Len(Out[2].mergedSessionIds) = 2

\* C1: with merge enabled, a record processed while an accumulator exists
\* joins it iff its key equals the accumulator's key and it is not both on
\* another local calendar day than the last merged record and more than two
\* hours away from it.
C1_MergeRule ==
    (Returned /\ argMerge) =>
        \A i \in DOMAIN argRecords :
            i + 1 \in DOMAIN argRecords =>
                LET prev == argRecords[i]
                    r == argRecords[i + 1]
                IN (GroupOf(i + 1) = GroupOf(i)) <=>
                      /\ getVideoKey(r) = getVideoKey(argRecords[GroupFirst(i)])
                      /\ ~(/\ DayDiffers(prev.date, r.date)
                           /\ Abs(r.date - prev.date) > TwoHoursMs)

\* 23:00, then 01:00 the next day (another day, exactly two hours: merged),
\* then 10:00 of the first day (another day than 01:00, fifteen hours away:
\* not merged although the key is the same).
C1_Witness ==
    /\ Returned /\ argMerge /\ tz = 0
    /\ Len(argRecords) = 3
    /\ \A i \in DOMAIN argRecords : argRecords[i].title = <<"a">>
    /\ argRecords[1].date = At(23, 0)
    /\ argRecords[2].date = At(25, 0)
    /\ argRecords[3].date = At(10, 0)
    /\ Len(Out) = 2
    /\ Out[1].mergedSessionIds = <<1, 2>>
    /\ Out[2].mergedSessionIds = <<3>>

\* C2: in both merge settings every emitted DisplayRecord's totalDuration is
\* the sum of the durations of the input records its mergedSessionIds name.
C2_DurationConservation ==
    Returned =>
        \A g \in DOMAIN Out :
            Out[g].totalDuration =
                SumOver(Constituents(Out[g]), [i \in DOMAIN argRecords |-> argRecords[i].duration])

C2_Witness ==
    /\ Returned /\ argMerge
    /\ \E g \in DOMAIN Out :
        /\ Len(Out[g].mergedSessionIds) = 3
        /\ Out[g].totalDuration = 1500

\* C4: with merge disabled the output has one DisplayRecord per input record,
\* in input order, each listing only its own sessionId, with its own duration,
\* isMerged false and the single segment [date, date + duration].
C4_MergeDisabled ==
    (Returned /\ ~argMerge) =>
        /\ Len(Out) = Len(argRecords)
        /\ \A i \in DOMAIN argRecords :
            /\ Out[i].mergedSessionIds = <<argRecords[i].sessionId>>
            /\ Out[i].totalDuration = argRecords[i].duration
            /\ Out[i].isMerged = FALSE
            /\ Out[i].segments =
                 <<[start |-> argRecords[i].date,
                    end |-> argRecords[i].date + 1000 * argRecords[i].duration]>>

C4_Witness ==
    /\ Returned /\ ~argMerge
    /\ Len(argRecords) = 2
    /\ getVideoKey(argRecords[1]) = getVideoKey(argRecords[2])
    /\ argRecords[1].date = argRecords[2].date
    /\ Len(Out) = 2

\* C6: every emitted DisplayRecord spans from the earliest start to the
\* latest end of its constituents, in whatever order they came; two same-key
\* records at 10:00 (600 s) and 10:20 (300 s) give one DisplayRecord of 900 s
\* with two segments spanning 10:00 to 10:25.
C6_Span ==
    Returned =>
        /\ \A g \in DOMAIN Out :
            /\ Out[g].spanStart =
                 SetMin({argRecords[i].date : i \in Constituents(Out[g])})
            /\ Out[g].spanEnd =
                 SetMax({argRecords[i].date + 1000 * argRecords[i].duration :
                            i \in Constituents(Out[g])})
        /\ ( /\ argMerge
             /\ Len(argRecords) = 2
             /\ argRecords[1].title = argRecords[2].title
             /\ argRecords[1].date = At(10, 0) /\ argRecords[1].duration = 600
             /\ argRecords[2].date = At(10, 20) /\ argRecords[2].duration = 300 )
           => ( /\ Len(Out) = 1
                /\ Out[1].totalDuration = 900
                /\ Len(Out[1].segments) = 2
                /\ Out[1].spanStart = At(10, 0)
                /\ Out[1].spanEnd = At(10, 25) )

\* The later record comes first: the span end comes from the first
\* constituent and the span start from the second.
C6_Witness ==
    /\ Returned /\ argMerge
    /\ Len(argRecords) = 2
    /\ argRecords[1].date = At(10, 20) /\ argRecords[1].duration = 300
    /\ argRecords[2].date = At(10, 0) /\ argRecords[2].duration = 600
    /\ Len(Out) = 1
    /\ Out[1].spanStart = At(10, 0)
    /\ Out[1].spanEnd = At(10, 25)

-----------------------------------------------------------------------------
(* Calls on pairs of records that may differ in title, channel name, URL  *)
(* query and language                                                      *)

Alphabet == {"a", "A", " "}
KeyTitles == SeqsUpTo(Alphabet, MaxStrLen)
\* Titles of the first record of a pair: lower case only.
KeyTitlesFirst == SeqsUpTo({"a", " "}, MaxStrLen)

WatchUrl == <<"https://v.test/watch", "v=1">>
KeyUrls == {WatchUrl,
            <<"https://v.test/watch", "v=1", "t=5">>,
            <<"https://v.test/watch", "si=x", "v=1", "t=9">>}

\* <<channelName of the first record, channelName of the second>>
KeyChannelPairs ==
    { << <<>>, << <<" ">> >> >>,
      << << <<"C">> >>, << <<" ", "c", " ">> >> >>,
      << << <<"C">> >>, << <<"C">> >> >>,
      << << <<"C">> >>, <<>> >> }

InitKey ==
    /\ tz = 0
    /\ \E t1 \in KeyTitlesFirst, t2 \in KeyTitles, ch \in KeyChannelPairs,
          u2 \in KeyUrls, l2 \in {"english", "japanese"} :
          argRecords =
            << PlaybackRecord(1, t1, WatchUrl, "english", 600, At(10, 0), ch[1], <<>>),
               PlaybackRecord(2, t2, u2, l2, 300, At(10, 20), ch[2], <<>>) >>
    /\ argMerge = TRUE
    /\ result = <<>>
    /\ PageInit

SpecKey == InitKey /\ [][NextCall]_vars

CaseOf == {<<"a", "A">>, <<"b", "B">>, <<"c", "C">>}

SameLetter(c, d) == c = d \/ <<c, d>> \in CaseOf \/ <<d, c>> \in CaseOf

EqualIgnoringCase(s, t) ==
    /\ Len(s) = Len(t)
    /\ \A i \in DOMAIN s : SameLetter(s[i], t[i])

AllWhitespace(s) == \A i \in DOMAIN s : IsWhitespace(s[i])

\* The ways of cutting s into leading whitespace, a core and trailing whitespace.
Cores(s) ==
    {SubSeq(s, i + 1, j) : <<i, j>> \in
        {<<i, j>> \in (0..Len(s)) \X (0..Len(s)) :
            /\ i <= j
            /\ AllWhitespace(SubSeq(s, 1, i))
            /\ AllWhitespace(SubSeq(s, j + 1, Len(s)))}}

\* s and t differ at most in letter case and in leading/trailing whitespace.
SameUpToCaseAndOuterSpace(s, t) ==
    \E cs \in Cores(s), ct \in Cores(t) : EqualIgnoringCase(cs, ct)

NotWhitespace(c) == ~IsWhitespace(c)

\* s and t differ at most in letter case and in whitespace anywhere.
SameUpToCaseAndSpace(s, t) ==
    EqualIgnoringCase(SelectSeq(s, NotWhitespace), SelectSeq(t, NotWhitespace))

ChannelText(r) == IF r.channelName = <<>> THEN <<>> ELSE r.channelName[1]

SameUrlUpToQuery(r1, r2) ==
    \/ r1.url = r2.url
    \/ (r1.url # <<>> /\ r2.url # <<>> /\ Head(r1.url) = Head(r2.url))

-----------------------------------------------------------------------------
(* Record store and goal store reads *)

\* store.getAll(): the stored values in key order.
RECURSIVE getAllFrom(_, _)
getAllFrom(s, keys) ==
    IF keys = {} THEN <<>>
    ELSE LET k == SetMin(keys) IN <<s[k]>> \o getAllFrom(s, keys \ {k})

getAllRecords(s) == getAllFrom(s, DOMAIN s)
getAllDailyGoals(g) == getAllFrom(g, DOMAIN g)

\* Array.prototype.sort with (a, b) => new Date(b.date) - new Date(a.date):
\* a stable sort by date, latest first.
RECURSIVE insertByDateDesc(_, _)
insertByDateDesc(sorted, x) ==
    IF sorted = <<>> THEN <<x>>
    ELSE IF Head(sorted).date >= x.date
         THEN <<Head(sorted)>> \o insertByDateDesc(Tail(sorted), x)
         ELSE <<x>> \o sorted

\* Variant: the records stay in the order getAll returned them in.
keepStoreOrder(xs) == xs

RECURSIVE sortByDateDesc(_)
sortByDateDesc(xs) ==
    IF xs = <<>> THEN <<>>
    ELSE insertByDateDesc(sortByDateDesc(SubSeq(xs, 1, Len(xs) - 1)), xs[Len(xs)])

\* A DailyGoal date "YYYY-MM-DD" is the number of its day; `new Date(date)`
\* reads it as that day's UTC midnight.
UtcDayNumber(ms) == RefEpochDay + (ms \div MsPerDay)

RECURSIVE firstNotAfter(_, _)
firstNotAfter(sortedGoals, targetDate) ==
    IF sortedGoals = <<>> THEN <<>>
    ELSE IF Head(sortedGoals).date <= targetDate THEN <<Head(sortedGoals)>>
         ELSE firstNotAfter(Tail(sortedGoals), targetDate)

\* Variant: the documents are scanned in key order, without the sort.
getDailyGoalUnsorted(g, date) ==
    LET allGoals == getAllDailyGoals(g)
    IN IF Len(allGoals) = 0 THEN <<>>
       ELSE firstNotAfter(allGoals, date)

getDailyGoal(g, date) ==
    LET allGoals == getAllDailyGoals(g)
    IN IF Len(allGoals) = 0 THEN <<>>
       ELSE firstNotAfter(sortByDateDesc(allGoals), date)

-----------------------------------------------------------------------------
(* History: loadGoals, loadRecords, getLanguageStats *)

\* The instant the page runs at: 2024-03-06T02:00:00Z, a Wednesday.
NowMs == At(5 * 24 + 2, 0)

\* new Date().toISOString().split("T")[0]
todayIso == UtcDayNumber(NowMs)

\* Date.getDay(): 1970-01-01 was a Thursday.
getDay(ms) == (LocalDayNumber(ms) + 4) % 7

\* new Date(year, month, date): local midnight of a day
LocalMidnight(dayNumber) == (dayNumber - RefEpochDay) * MsPerDay - tz * MsPerMinute

todayStart == LocalMidnight(LocalDayNumber(NowMs))
weekStart == LocalMidnight(LocalDayNumber(NowMs) - getDay(NowMs))
monthStart == LocalMidnight(LocalDayNumber(NowMs) - (getDate(NowMs) - 1))

\* The goals loadGoals puts into the goal inputs.
loadedGoalInputs(g) ==
    LET dailyGoal == getDailyGoal(g, todayIso)
    IN IF dailyGoal = <<>> THEN DEFAULT_DAILY_GOAL ELSE dailyGoal[1].goals

\* visibility?.x ?? true for the four languages; <<>> is a missing argument.
normalizeVisibility(visibility) ==
    [l \in KnownLanguages |->
        IF l \in DOMAIN visibility THEN visibility[l] ELSE TRUE]

\* dailyGoal.visibility of a stored document: <<>> when it has none.
visibilityOf(dailyGoal) ==
    IF "visibility" \in DOMAIN dailyGoal THEN <<dailyGoal.visibility>> ELSE <<>>

\* The visibility loadGoals puts into languageVisibility:
\* normalizeVisibility(dailyGoal.visibility || languageVisibility).
loadedVisibility(g, current) ==
    LET dailyGoal == getDailyGoal(g, todayIso)
    IN IF dailyGoal # <<>> /\ visibilityOf(dailyGoal[1]) # <<>>
       THEN normalizeVisibility(dailyGoal[1].visibility)
       ELSE normalizeVisibility(current)

passesFilters(record, langFilter, dFilter) ==
    /\ ~(langFilter # "all" /\ record.language # langFilter)
    /\ CASE dFilter = "today" -> record.date >= todayStart
         [] dFilter = "week" -> record.date >= weekStart
         [] dFilter = "month" -> record.date >= monthStart
         [] OTHER -> TRUE

\* The sequence loadRecords puts into `records`.
loadedRecords(s, langFilter, dFilter) ==
    LET allRecords == getAllRecords(s)
        keep(record) == passesFilters(record, langFilter, dFilter)
    IN sortByDateDesc(SelectSeq(allRecords, keep))

RECURSIVE addToStats(_, _)
addToStats(stats, rs) ==
    IF rs = <<>> THEN stats
    ELSE addToStats(
            IF Head(rs).language \in DOMAIN stats
            THEN [stats EXCEPT ![Head(rs).language] = @ + Head(rs).duration]
            ELSE stats,
            Tail(rs))

getLanguageStats(rs) == addToStats([l \in KnownLanguages |-> 0], rs)

languageStats == getLanguageStats(records)

\* useMemo(() => buildDisplayRecords(records, mergeDisplay))
displayRecords == buildDisplayRecords(records, mergeDisplay)

-----------------------------------------------------------------------------
(* Calendar: updateDailyDurations and the day cells *)

DigitChar(n) == <<"0", "1", "2", "3", "4", "5", "6", "7", "8", "9">>[n + 1]

\* String(n).padStart(2, "0") for 0 <= n < 100
pad2(n) == <<DigitChar(n \div 10), DigitChar(n % 10)>>

\* String(year) for a four-digit year
year4(y) == <<DigitChar(y \div 1000), DigitChar((y \div 100) % 10),
              DigitChar((y \div 10) % 10), DigitChar(y % 10)>>

\* Variant: the key is the UTC date of the instant (toISOString().split("T")[0]).
dateStrOfUtc(ms) ==
    LET c == CivilFromDays(UtcDayNumber(ms))
    IN year4(c.year) \o <<"-">> \o pad2(c.month + 1) \o <<"-">> \o pad2(c.date)

\* `${getFullYear()}-${pad(getMonth() + 1)}-${pad(getDate())}`
dateStrOf(ms) ==
    year4(getFullYear(ms)) \o <<"-">> \o pad2(getMonth(ms) + 1) \o <<"-">> \o pad2(getDate(ms))

\* One iteration of allRecords.forEach over the map being built.
addToDurations(durations, record) ==
    LET dateStr == dateStrOf(record.date)
        dayRecord == IF dateStr \in DOMAIN durations THEN durations[dateStr]
                     ELSE [l \in KnownLanguages |-> 0]
        prior == IF record.language \in DOMAIN dayRecord
                 THEN dayRecord[record.language] ELSE 0
    IN (dateStr :> ((record.language :> (prior + record.duration)) @@ dayRecord))
           @@ durations

RECURSIVE addAllToDurations(_, _)
addAllToDurations(durations, rs) ==
    IF rs = <<>> THEN durations
    ELSE addAllToDurations(addToDurations(durations, Head(rs)), Tail(rs))

\* The map updateDailyDurations puts into dailyDurations.
updatedDailyDurations(s) == addAllToDurations(<<>>, getAllRecords(s))

\* The languages a day cell evaluates.
cellLanguages(dateStr) ==
    IF languageFilter = "all" THEN DOMAIN dailyDurations[dateStr] ELSE {languageFilter}

numericDuration(dateStr, lang) ==
    IF lang \in DOMAIN dailyDurations[dateStr] THEN dailyDurations[dateStr][lang] ELSE 0

\* goalInputs[lang] || 0
goalOf(lang) == IF lang \in DOMAIN goalInputs THEN goalInputs[lang] ELSE 0

\* Variant: the goal is not required to be positive.
achievedWithoutPositiveGoal(goal, duration) == duration \div 60 >= goal

achieved(goal, duration) == goal > 0 /\ duration \div 60 >= goal

\* What the cell shows for a language: <<>> (nothing) or the minutes and
\* whether they are marked achieved.
langDuration(dateStr, lang) ==
    IF numericDuration(dateStr, lang) <= 0 THEN <<>>
    ELSE <<[minutes |-> numericDuration(dateStr, lang) \div 60,
            achieved |-> achieved(goalOf(lang), numericDuration(dateStr, lang))]>>

\* Neither entry form is open: the overlay of an open form covers the page.
noModal == editingRecord = <<>> /\ ~showManualEntry

\* The Calendar is rendered on the records tab once loading is over.
calendarMounted == ~loading /\ activeTab = "records"

-----------------------------------------------------------------------------
(* The page: History with its Calendar over a store filled earlier *)

\* useEffect of History (loadGoals, loadRecords) followed by the mount of the
\* Calendar, whose own effect runs updateDailyDurations when it is rendered.
runEffects(langFilter, dFilter) ==
    /\ loading' = FALSE
    /\ goalInputs' = loadedGoalInputs(dailyGoals)
    /\ languageVisibility' = loadedVisibility(dailyGoals, languageVisibility)
    /\ records' = loadedRecords(store, langFilter, dFilter)
    /\ dailyDurations' =
         IF activeTab = "records" THEN updatedDailyDurations(store) ELSE <<>>

Mount ==
    /\ loading
    /\ runEffects(languageFilter, dateFilter)
    /\ UNCHANGED <<tz, callVars, queryVars, heap, connectionVars, formVars, serviceVars,
                   store, dailyGoals, activeTab, mergeDisplay,
                   languageFilter, dateFilter>>

\* A click on a tab button.  Leaving the records tab unmounts the Calendar;
\* coming back mounts a new one, which loads its map.
setActiveTab(tab) ==
    /\ ~loading
    /\ noModal
    /\ tab # activeTab
    /\ activeTab' = tab
    /\ dailyDurations' = IF tab = "records" THEN updatedDailyDurations(store) ELSE <<>>
    /\ UNCHANGED <<tz, callVars, queryVars, heap, connectionVars, formVars,
                   serviceVars, languageVisibility,
                   store, dailyGoals, loading, records, mergeDisplay,
                   languageFilter, dateFilter, goalInputs>>

\* Variant: the Calendar is fed the display records and reloads on the toggle.
setMergeDisplayFeedingCalendar(checked) ==
    /\ calendarMounted
    /\ checked # mergeDisplay
    /\ mergeDisplay' = checked
    /\ dailyDurations' =
         LET shown == buildDisplayRecords(records, checked)
         IN addAllToDurations(<<>>,
                [i \in DOMAIN shown |-> [shown[i] EXCEPT !.duration = shown[i].totalDuration]])
    /\ UNCHANGED <<tz, callVars, queryVars, heap, connectionVars, formVars,
                   serviceVars, languageVisibility,
                   store, dailyGoals, loading, activeTab, records,
                   languageFilter, dateFilter, goalInputs>>

\* The "Merge consecutive plays" checkbox.
setMergeDisplay(checked) ==
    /\ calendarMounted
    /\ noModal
    /\ checked # mergeDisplay
    /\ mergeDisplay' = checked
    /\ UNCHANGED <<tz, callVars, queryVars, heap, connectionVars, formVars,
                   serviceVars, languageVisibility,
                   store, dailyGoals, loading, activeTab, records,
                   languageFilter, dateFilter, goalInputs, dailyDurations>>

\* The language select of the records tab; the change re-runs the effects.
setLanguageFilter(value) ==
    /\ calendarMounted
    /\ value # languageFilter
    /\ languageFilter' = value
    /\ runEffects(value, dateFilter)
    /\ UNCHANGED <<tz, callVars, queryVars, heap, connectionVars, formVars, serviceVars,
                   store, dailyGoals, activeTab, mergeDisplay, dateFilter>>

\* The time select of the records tab; the change re-runs the effects.
setDateFilter(value) ==
    /\ calendarMounted
    /\ value # dateFilter
    /\ dateFilter' = value
    /\ runEffects(languageFilter, value)
    /\ UNCHANGED <<tz, callVars, queryVars, heap, connectionVars, formVars, serviceVars,
                   store, dailyGoals, activeTab, mergeDisplay,
                   languageFilter>>

\* Typing into a goal input of the settings tab.
handleGoalInputChange(language, value) ==
    /\ ~loading
    /\ activeTab = "settings"
    /\ goalInputs' = (language :> value) @@ goalInputs
    /\ UNCHANGED <<tz, callVars, queryVars, heap, connectionVars, formVars,
                   serviceVars, languageVisibility,
                   store, dailyGoals, loading, activeTab, records,
                   mergeDisplay, languageFilter, dateFilter, dailyDurations>>

Tabs == {"records", "settings"}
LanguageFilters == {"all", "english"}
DateFilters == {"all", "today", "week", "month"}
GoalInputLanguages == {"english"}
GoalInputValues == {0, 60}

NextPage ==
    \/ Mount
    \/ \E tab \in Tabs : setActiveTab(tab)
    \/ \E checked \in BOOLEAN : setMergeDisplay(checked)
    \/ \E value \in LanguageFilters : setLanguageFilter(value)
    \/ \E value \in DateFilters : setDateFilter(value)
    \/ \E language \in GoalInputLanguages, value \in GoalInputValues :
          handleGoalInputChange(language, value)

\* Records the store may hold: title "a", no channel.
\*   Feb 29 12:00Z (before this month) | Mar 1 10:00Z | Mar 1 23:30Z (Mar 2
\*   one hour east of UTC) | Mar 4 01:00Z (this week, not today);
\*   "french" is a language outside the fixed set.
StoredChoices ==
    { [date |-> At(-12, 0), language |-> "english", duration |-> 3599],
      [date |-> At(10, 0), language |-> "english", duration |-> 3599],
      [date |-> At(10, 0), language |-> "english", duration |-> 1],
      [date |-> At(10, 0), language |-> "french", duration |-> 1],
      [date |-> At(23, 30), language |-> "english", duration |-> 1],
      [date |-> At(23, 30), language |-> "french", duration |-> 3599],
      [date |-> At(3 * 24 + 1, 0), language |-> "japanese", duration |-> 3599] }

StoreOf(f) ==
    [id \in DOMAIN f |->
        PlaybackRecord(id, <<"a">>, ManualUrl, f[id].language, f[id].duration,
                       f[id].date, <<>>, <<>>)]

Stores == UNION {{StoreOf(f) : f \in [ids -> StoredChoices]} : ids \in SUBSET (1..MaxStored)}

\* No goal saved yet, or one saved three days ago: 60 minutes of English.
GoalStores ==
    { EmptyStore,
      (todayIso - 3) :> [date |-> todayIso - 3,
                          goals |-> [DEFAULT_DAILY_GOAL EXCEPT !["english"] = 60]] }

InitPage ==
    /\ tz \in TimeZones
    /\ argRecords = <<>> /\ argMerge = TRUE /\ result = <<>>
    /\ store \in Stores
    /\ dailyGoals \in GoalStores
    /\ ComponentInit
    /\ IdleInit

SpecPage == InitPage /\ [][NextPage]_vars

-----------------------------------------------------------------------------
(* Properties of the per-day aggregation and of the achieved mark *)

\* The days the stored records can fall on, with a margin.
DayRange == (RefEpochDay - 2) .. (RefEpochDay + 4)

\* The key of a calendar day: year, month and day of the month.
DateKey(dayNumber) ==
    LET c == CivilFromDays(dayNumber)
    IN year4(c.year) \o <<"-">> \o pad2(c.month + 1) \o <<"-">> \o pad2(c.date)

\* The per-day total held under a key for a language (nothing held: 0).
TotalAt(dateStr, l) ==
    IF dateStr \in DOMAIN dailyDurations /\ l \in DOMAIN dailyDurations[dateStr]
    THEN dailyDurations[dateStr][l]
    ELSE 0

DayTotal(dayNumber, l) == TotalAt(DateKey(dayNumber), l)

StoredDurations == [id \in DOMAIN store |-> store[id].duration]

StoredOn(dayNumber, l) ==
    {id \in DOMAIN store :
        LocalDayNumber(store[id].date) = dayNumber /\ store[id].language = l}

\* The sum of all totals the map holds for the languages of the fixed set.
AllDayTotals ==
    LET cells == (DOMAIN dailyDurations) \X KnownLanguages
    IN SumOver(cells, [c \in cells |-> TotalAt(c[1], c[2])])

\* C7: for every local calendar day and every language of the fixed set the
\* per-day total is the sum of the durations of the stored records of that
\* day and language, and all per-day totals together sum up to the durations
\* of all those records.
C7_PerDayTotals ==
    calendarMounted =>
        /\ DOMAIN dailyDurations \subseteq {DateKey(d) : d \in DayRange}
        /\ \A d \in DayRange, l \in KnownLanguages :
              DayTotal(d, l) = SumOver(StoredOn(d, l), StoredDurations)
        /\ AllDayTotals =
              SumOver({id \in DOMAIN store : store[id].language \in KnownLanguages},
                      StoredDurations)

\* One hour east of UTC a record of 23:30Z counts for the next local day.
C7_Witness ==
    /\ calendarMounted
    /\ tz = 60
    /\ \E id \in DOMAIN store :
          store[id].date = At(23, 30) /\ store[id].language = "english"
    /\ \E id \in DOMAIN store :
          store[id].date = At(10, 0) /\ store[id].language = "english"
    /\ DayTotal(RefEpochDay, "english") > 0
    /\ DayTotal(RefEpochDay + 1, "english") > 0

\* C8: switching merge display on or off leaves the per-day, per-language
\* duration map as it is.
C8_MergeIndependent ==
    [][mergeDisplay' # mergeDisplay => dailyDurations' = dailyDurations]_vars

\* Merge display has been switched off over records that merge display
\* groups, and the Calendar holds totals.
C8_Witness ==
    /\ calendarMounted
    /\ ~mergeDisplay
    /\ Len(buildDisplayRecords(records, TRUE)) < Len(records)
    /\ dailyDurations # <<>>

\* C9: a record whose language is outside the fixed set adds no entry for
\* its language to the per-day map nor to the overall totals and changes no
\* known language's total.
C9_UnknownLanguageExcluded ==
    /\ calendarMounted =>
          /\ \A dateStr \in DOMAIN dailyDurations :
                DOMAIN dailyDurations[dateStr] \subseteq KnownLanguages
          /\ \A d \in DayRange, l \in KnownLanguages :
                DayTotal(d, l) = SumOver(StoredOn(d, l), StoredDurations)
    /\ ~loading =>
          /\ DOMAIN languageStats = KnownLanguages
          /\ \A l \in KnownLanguages :
                languageStats[l] =
                    SumSeq([i \in DOMAIN records |->
                               IF records[i].language = l THEN records[i].duration ELSE 0])

\* The seconds a day cell evaluates for a language, and whether it marks them
\* achieved.
CellSeconds(dateStr, l) ==
    IF l \in DOMAIN dailyDurations[dateStr] THEN dailyDurations[dateStr][l] ELSE 0

MarkedAchieved(dateStr, l) ==
    langDuration(dateStr, l) # <<>> /\ langDuration(dateStr, l)[1].achieved

GoalMinutes(l) == IF l \in DOMAIN goalInputs THEN goalInputs[l] ELSE 0

\* C10: a (day, language) pair is achieved iff its goal is positive and the
\* whole minutes of its total reach the goal: 3600 s with goal 60 is achieved,
\* 3599 s is not, and with goal 0 or no goal nothing is.
C10_AchievedThreshold ==
    calendarMounted =>
        \A dateStr \in DOMAIN dailyDurations : \A l \in cellLanguages(dateStr) :
            /\ MarkedAchieved(dateStr, l) <=>
                  (GoalMinutes(l) > 0 /\ CellSeconds(dateStr, l) >= 60 * GoalMinutes(l))
            /\ (CellSeconds(dateStr, l) = 3600 /\ GoalMinutes(l) = 60)
                  => MarkedAchieved(dateStr, l)
            /\ (CellSeconds(dateStr, l) = 3599 /\ GoalMinutes(l) = 60)
                  => ~MarkedAchieved(dateStr, l)
            /\ GoalMinutes(l) = 0 => ~MarkedAchieved(dateStr, l)

\* 3599 s and 1 s of English on one day against a goal of 60 minutes.
C10_Witness ==
    /\ calendarMounted
    /\ GoalMinutes("english") = 60
    /\ \E dateStr \in DOMAIN dailyDurations :
          /\ CellSeconds(dateStr, "english") = 3600
          /\ MarkedAchieved(dateStr, "english")

-----------------------------------------------------------------------------
(* One call of getDailyGoal on a drawn goal store *)

MaxGoals == 3          \* most documents held by the goal store in these runs

\* 2024-01-01 as a day number: 31 + 29 days before 2024-03-01.
Jan1 == RefEpochDay - (31 + 29)

\* 2023-12-31 | 2024-01-01 | 2024-01-05 | 2024-01-10 | the day after today.
GoalDates == {Jan1 - 1, Jan1, Jan1 + 4, Jan1 + 9, todayIso + 1}
ResolveDates == GoalDates \cup {todayIso}
GoalMinuteChoices == {0, 30}

\* A stored DailyGoal as History.saveGoal shapes it before any visibility is
\* kept with it.
DailyGoalOf(date, englishMinutes) ==
    [date |-> date, goals |-> [DEFAULT_DAILY_GOAL EXCEPT !["english"] = englishMinutes]]

DrawnGoalStores ==
    UNION {{[d \in dates |-> DailyGoalOf(d, m[d])] : m \in [dates -> GoalMinuteChoices]} :
              dates \in {D \in SUBSET GoalDates : Cardinality(D) <= MaxGoals}}

InitResolve ==
    /\ tz = 0
    /\ argRecords = <<>> /\ argMerge = TRUE /\ result = <<>>
    /\ store = EmptyStore
    /\ dailyGoals \in DrawnGoalStores
    /\ ComponentInit
    /\ inFlight = <<>>
    /\ calls = <<>>
    /\ argDate \in ResolveDates
    /\ goalResult = <<>>
    /\ heap = <<>>
    /\ db = <<>> /\ opened = 0 /\ sinceEvent = 0 /\ closed = {} /\ operations = <<>>

\* databaseService.getDailyGoal(argDate) resolves.
ResolveGoal ==
    /\ goalResult = <<>>
    /\ goalResult' = <<getDailyGoal(dailyGoals, argDate)>>
    /\ UNCHANGED <<tz, callVars, pageVars, argDate, heap, connectionVars>>

NextResolve ==
    \/ ResolveGoal
    \/ Mount

SpecResolve == InitResolve /\ [][NextResolve]_vars

Resolved == goalResult # <<>>

\* The stored document with the greatest date not after the target, if any.
LatestNotAfter(g, target) ==
    LET notAfter == {d \in DOMAIN g : d <= target}
    IN IF notAfter = {} THEN <<>> ELSE <<g[SetMax(notAfter)]>>

\* C11: getDailyGoal(target) returns the stored DailyGoal with the greatest
\* date not after the target and nothing when there is none, in which case
\* loadGoals uses the all-zero goals; with documents of 2024-01-01 and
\* 2024-01-10, 2024-01-05 resolves to the first and 2023-12-31 to nothing.
C11_CarryForward ==
    /\ Resolved =>
          /\ goalResult[1] = LatestNotAfter(dailyGoals, argDate)
          /\ (argDate \in DOMAIN dailyGoals) => goalResult[1] = <<dailyGoals[argDate]>>
          /\ (DOMAIN dailyGoals = {Jan1, Jan1 + 9} /\ argDate = Jan1 + 4)
                => goalResult[1] = <<dailyGoals[Jan1]>>
          /\ (DOMAIN dailyGoals = {Jan1, Jan1 + 9} /\ argDate = Jan1 - 1)
                => goalResult[1] = <<>>
    /\ ~loading =>
          goalInputs = IF LatestNotAfter(dailyGoals, todayIso) = <<>>
                       THEN [l \in KnownLanguages |-> 0]
                       ELSE LatestNotAfter(dailyGoals, todayIso)[1].goals

\* Documents of 2024-01-01 and 2024-01-10 with different goals; 2024-01-05
\* has been resolved.
C11_Witness ==
    /\ Resolved
    /\ DOMAIN dailyGoals = {Jan1, Jan1 + 9}
    /\ dailyGoals[Jan1].goals["english"] = 30
    /\ dailyGoals[Jan1 + 9].goals["english"] = 0
    /\ argDate = Jan1 + 4
    /\ goalResult[1] = <<dailyGoals[Jan1]>>
    /\ ~loading

-----------------------------------------------------------------------------
(* The goal store: saveDailyGoal, History.saveGoal, toggleLanguageVisibility *)

MaxInFlight == 2       \* most goal updates between their read and their write

\* Variant: every put adds a document under a key of its own.
putDailyGoalAsNew(g, dailyGoal) ==
    ((IF DOMAIN g = {} THEN dailyGoal.date ELSE SetMax(DOMAIN g \cup {dailyGoal.date}) + 1)
        :> dailyGoal) @@ g

\* Variant: a document is only added, never replaced.
putDailyGoalKeepingFirst(g, dailyGoal) ==
    IF dailyGoal.date \in DOMAIN g THEN g ELSE (dailyGoal.date :> dailyGoal) @@ g

\* store.put(completeDailyGoal) on a store whose keyPath is "date".
putDailyGoal(g, dailyGoal) == (dailyGoal.date :> dailyGoal) @@ g

\* goalInputs[language] || 0 of a captured goalInputs
inputOf(inputs, language) == IF language \in DOMAIN inputs THEN inputs[language] ELSE 0

\* Variant: the document takes every goal from the goal inputs.
saveGoalDocumentFromInputs(existingDailyGoal, language, inputs, visibilityState) ==
    [date |-> todayIso,
     goals |-> [l \in KnownLanguages |-> inputOf(inputs, l)],
     visibility |-> normalizeVisibility(visibilityState)]

\* The document saveGoal(language) hands to saveDailyGoal once
\* getDailyGoal(today) has resolved to existingDailyGoal.
saveGoalDocument(existingDailyGoal, language, inputs, visibilityState) ==
    LET zeros == [l \in KnownLanguages |-> 0]
        spread == IF existingDailyGoal # <<>>
                  THEN existingDailyGoal[1].goals @@ zeros ELSE zeros
        goals == (language :> inputOf(inputs, language)) @@ spread
        baseVisibility ==
            normalizeVisibility(
                IF existingDailyGoal # <<>> /\ visibilityOf(existingDailyGoal[1]) # <<>>
                THEN existingDailyGoal[1].visibility ELSE visibilityState)
        visibility == (language :> visibilityState[language]) @@ baseVisibility
    IN [date |-> todayIso, goals |-> goals, visibility |-> visibility]

\* The document persist() of toggleLanguageVisibility hands to saveDailyGoal:
\* goals = existingDailyGoal?.goals || goalInputs, visibility = normalizeVisibility(next).
persistDocument(existingDailyGoal, next, inputs) ==
    [date |-> todayIso,
     goals |-> IF existingDailyGoal # <<>> THEN existingDailyGoal[1].goals ELSE inputs,
     visibility |-> normalizeVisibility(next)]

\* A write call as it is kept in `calls`.
WriteCall(op, arg, ok) == [op |-> op, arg |-> arg, ok |-> ok]

\* loadGoals at the end of saveGoal: loading goes on and off around the
\* reads, which remounts the Calendar.
loadGoalsAfter(g) ==
    /\ loading' = FALSE
    /\ goalInputs' = loadedGoalInputs(g)
    /\ languageVisibility' = loadedVisibility(g, languageVisibility)
    /\ dailyDurations' =
         IF activeTab = "records" THEN updatedDailyDurations(store) ELSE <<>>

\* A click on "save" next to a goal input: saveGoal runs up to the point
\* where getDailyGoal(today) has resolved.
saveGoal(language) ==
    /\ ~loading
    /\ activeTab = "settings"
    /\ Len(inFlight) < MaxInFlight
    /\ LET existingDailyGoal == getDailyGoal(dailyGoals, todayIso)
       IN inFlight' = Append(inFlight,
              [op |-> "saveGoal", language |-> language,
               existingDailyGoal |-> existingDailyGoal,
               dailyGoal |-> saveGoalDocument(existingDailyGoal, language, goalInputs,
                                              languageVisibility)])
    /\ calls' = <<>>
    /\ UNCHANGED <<tz, callVars, queryVars, heap, connectionVars, formVars, store,
                   dailyGoals, loading,
                   activeTab, records, mergeDisplay, languageFilter, dateFilter,
                   goalInputs, dailyDurations, languageVisibility>>

\* The checkbox of a language: the state update and persist() up to the point
\* where getDailyGoal(today) has resolved.  Hiding the language the records
\* are filtered by resets the filter, which re-runs the effects on the store
\* as it is before persist() writes.
toggleLanguageVisibility(language) ==
    /\ ~loading
    /\ activeTab = "settings"
    /\ Len(inFlight) < MaxInFlight
    /\ LET next == [languageVisibility EXCEPT ![language] = ~@]
           existingDailyGoal == getDailyGoal(dailyGoals, todayIso)
       IN /\ inFlight' = Append(inFlight,
                 [op |-> "persist", language |-> language,
                  existingDailyGoal |-> existingDailyGoal,
                  dailyGoal |-> persistDocument(existingDailyGoal, next, goalInputs)])
          /\ IF ~next[language] /\ languageFilter = language
             THEN /\ languageFilter' = "all"
                  /\ loading' = FALSE
                  /\ goalInputs' = loadedGoalInputs(dailyGoals)
                  /\ languageVisibility' = loadedVisibility(dailyGoals, next)
                  /\ records' = loadedRecords(store, "all", dateFilter)
                  /\ dailyDurations' = <<>>
             ELSE /\ languageVisibility' = next
                  /\ UNCHANGED <<languageFilter, loading, goalInputs, records,
                                 dailyDurations>>
    /\ calls' = <<>>
    /\ UNCHANGED <<tz, callVars, queryVars, heap, connectionVars, formVars, store,
                   dailyGoals, activeTab,
                   mergeDisplay, dateFilter>>

\* The i-th update under way goes on: saveDailyGoal puts its document, and
\* saveGoal then reloads the goals.  When the call fails nothing is put;
\* saveGoal catches the error and shows a message, persist() has no handler.
completeGoalUpdate(i, ok) ==
    /\ i \in DOMAIN inFlight
    /\ dailyGoals' = IF ok THEN putDailyGoal(dailyGoals, inFlight[i].dailyGoal)
                          ELSE dailyGoals
    /\ inFlight' = [j \in 1..(Len(inFlight) - 1) |->
                        IF j < i THEN inFlight[j] ELSE inFlight[j + 1]]
    /\ calls' = Append(calls, WriteCall("saveDailyGoal", inFlight[i].dailyGoal, ok))
    /\ IF ok /\ inFlight[i].op = "saveGoal"
       THEN loadGoalsAfter(dailyGoals')
       ELSE UNCHANGED <<loading, goalInputs, languageVisibility, dailyDurations>>
    /\ UNCHANGED <<tz, callVars, queryVars, heap, connectionVars, formVars, store,
                   activeTab, records,
                   mergeDisplay, languageFilter, dateFilter>>

\* databaseService.saveDailyGoal(dailyGoal) called on its own, on a store
\* that has room for the document.
saveDailyGoal(dailyGoal) ==
    /\ inFlight = <<>>
    /\ Cardinality(DOMAIN dailyGoals \cup {dailyGoal.date}) <= MaxGoals
    /\ dailyGoals' = putDailyGoal(dailyGoals, dailyGoal)
    /\ calls' = <<WriteCall("saveDailyGoal", dailyGoal, TRUE)>>
    /\ UNCHANGED <<tz, callVars, queryVars, heap, connectionVars, formVars, store,
                   loading, activeTab,
                   records, mergeDisplay, languageFilter, dateFilter, goalInputs,
                   dailyDurations, languageVisibility, inFlight>>

\* Goals are saved for two languages; one of them has its input typed into
\* and its checkbox clicked.
GoalLanguages == {"english", "japanese"}
TypedLanguages == {"english"}
TypedGoals == {0, 30}

NextGoals ==
    \/ Mount
    \/ \E tab \in Tabs : setActiveTab(tab)
    \/ \E language \in TypedLanguages, value \in TypedGoals :
          handleGoalInputChange(language, value)
    \/ \E language \in GoalLanguages : saveGoal(language)
    \/ \E language \in TypedLanguages : toggleLanguageVisibility(language)
    \/ \E i \in 1..MaxInFlight : completeGoalUpdate(i, TRUE)

\* No goal saved yet, or one saved three days ago: 60 minutes of Japanese.
EarlierGoalStores ==
    { EmptyStore,
      (todayIso - 3) :> [date |-> todayIso - 3,
                          goals |-> [DEFAULT_DAILY_GOAL EXCEPT !["japanese"] = 60]] }

InitGoals ==
    /\ tz = 0
    /\ argRecords = <<>> /\ argMerge = TRUE /\ result = <<>>
    /\ store = EmptyStore
    /\ dailyGoals \in EarlierGoalStores
    /\ ComponentInit
    /\ IdleInit

SpecGoals == InitGoals /\ [][NextGoals]_vars

\* Documents handed to saveDailyGoal directly.
DirectDailyGoals ==
    {DailyGoalOf(d, m) : d \in GoalDates, m \in GoalMinuteChoices}

NextSave == \E dailyGoal \in DirectDailyGoals : saveDailyGoal(dailyGoal)

InitSave ==
    /\ tz = 0
    /\ argRecords = <<>> /\ argMerge = TRUE /\ result = <<>>
    /\ store = EmptyStore
    /\ dailyGoals \in DrawnGoalStores
    /\ ComponentInit
    /\ IdleInit

SpecSave == InitSave /\ [][NextSave]_vars

-----------------------------------------------------------------------------
(* Properties of the goal store *)

\* The document the latest saveDailyGoal call was given.
LastWritten(log) == log[Len(log)].arg

DocumentsDated(g, date) == {k \in DOMAIN g : g[k].date = date}

\* C12: saving a DailyGoal for a date creates or replaces the document of
\* that date only: documents of other dates stay as they are, every earlier
\* date resolves as before, and no date ever has two documents.
C12_SaveByDate ==
    [][calls' # calls =>
          LET saved == LastWritten(calls')
          IN /\ \E k \in DOMAIN dailyGoals' :
                   /\ dailyGoals'[k].date = saved.date
                   /\ dailyGoals'[k].goals = saved.goals
             /\ \A k \in DOMAIN dailyGoals :
                   dailyGoals[k].date # saved.date =>
                       k \in DOMAIN dailyGoals' /\ dailyGoals'[k] = dailyGoals[k]
             /\ \A t \in ResolveDates :
                   t < saved.date =>
                       getDailyGoal(dailyGoals', t) = getDailyGoal(dailyGoals, t)
             /\ \A date \in GoalDates :
                   Cardinality(DocumentsDated(dailyGoals', date)) <= 1
             /\ Cardinality(DOMAIN dailyGoals')
                   = Cardinality({dailyGoals'[k].date : k \in DOMAIN dailyGoals'})]_vars

\* 2024-01-05 has been saved between documents of 2024-01-01 and 2024-01-10.
C12_Witness ==
    /\ calls # <<>>
    /\ LastWritten(calls) = DailyGoalOf(Jan1 + 4, 30)
    /\ DOMAIN dailyGoals = {Jan1, Jan1 + 4, Jan1 + 9}
    /\ dailyGoals[Jan1 + 4].goals = LastWritten(calls).goals

\* The update that has just read its snapshot.
Started(flight) == flight[Len(flight)]

\* Goals and visibility of an optional snapshot, the defaults when it is
\* missing.
GoalsOfSnapshot(snapshot) ==
    IF snapshot = <<>> THEN [l \in KnownLanguages |-> 0] ELSE snapshot[1].goals

VisibilityOfSnapshot(snapshot) ==
    IF snapshot # <<>> /\ "visibility" \in DOMAIN snapshot[1]
    THEN snapshot[1].visibility
    ELSE [l \in KnownLanguages |-> TRUE]

\* C13: saveGoal(language) writes for today a document whose goal of that
\* language is the typed value and whose other goals are those of the
\* snapshot resolved for today before the save (0 without a snapshot);
\* resolving today after the write gives that document.
C13_SiblingsPreserved ==
    [][/\ (Len(inFlight') > Len(inFlight) /\ Started(inFlight').op = "saveGoal") =>
            LET update == Started(inFlight')
                before == getDailyGoal(dailyGoals, todayIso)
            IN /\ update.dailyGoal.date = todayIso
               /\ DOMAIN update.dailyGoal.goals = KnownLanguages
               /\ update.dailyGoal.goals[update.language] = goalInputs[update.language]
               /\ \A l \in KnownLanguages \ {update.language} :
                     update.dailyGoal.goals[l] = GoalsOfSnapshot(before)[l]
       /\ \A i \in DOMAIN inFlight :
            (Len(inFlight') < Len(inFlight) /\ inFlight[i].op = "saveGoal"
               /\ calls'[Len(calls')].ok
               /\ LastWritten(calls') = inFlight[i].dailyGoal) =>
                 /\ getDailyGoal(dailyGoals', todayIso) # <<>>
                 /\ getDailyGoal(dailyGoals', todayIso)[1].date = todayIso
                 /\ getDailyGoal(dailyGoals', todayIso)[1].goals
                       = inFlight[i].dailyGoal.goals]_vars

\* Over a snapshot with 60 minutes of Japanese, 30 minutes of English have
\* been saved and read back.
C13_Witness ==
    /\ inFlight = <<>>
    /\ Len(calls) = 1
    /\ calls[1].ok
    /\ todayIso \in DOMAIN dailyGoals
    /\ todayIso - 3 \in DOMAIN dailyGoals
    /\ LastWritten(calls) = dailyGoals[todayIso]
    /\ dailyGoals[todayIso].goals =
          [DEFAULT_DAILY_GOAL EXCEPT !["english"] = 30, !["japanese"] = 60]
    /\ goalInputs = dailyGoals[todayIso].goals

\* C19: toggling the visibility of a language persists for today a document
\* that differs from the snapshot resolved for today before the toggle (or
\* from the defaults) in the visibility of that language only, whatever the
\* goal inputs hold.
C19_ToggleKeepsSnapshot ==
    [][(Len(inFlight') > Len(inFlight) /\ Started(inFlight').op = "persist") =>
          LET update == Started(inFlight')
              before == getDailyGoal(dailyGoals, todayIso)
          IN /\ update.dailyGoal.date = todayIso
             /\ update.dailyGoal.goals = GoalsOfSnapshot(before)
             /\ update.dailyGoal.visibility[update.language]
                   = ~VisibilityOfSnapshot(before)[update.language]
             /\ \A l \in KnownLanguages \ {update.language} :
                   update.dailyGoal.visibility[l] = VisibilityOfSnapshot(before)[l]]_vars

\* C20: an update that completes after another one wrote in between stores
\* exactly its own document: today's document is replaced as a whole, and
\* what the other update changed is gone.
C20_LastWriteWins ==
    [][\A i \in DOMAIN inFlight :
          (Len(inFlight') < Len(inFlight) /\ calls'[Len(calls')].ok
             /\ LastWritten(calls') = inFlight[i].dailyGoal) =>
              /\ DOMAIN dailyGoals' = DOMAIN dailyGoals \cup {todayIso}
              /\ dailyGoals'[todayIso] = inFlight[i].dailyGoal
              /\ \A d \in DOMAIN dailyGoals \ {todayIso} : dailyGoals'[d] = dailyGoals[d]
              /\ inFlight[i].op = "saveGoal" =>
                    \A l \in KnownLanguages \ {inFlight[i].language} :
                        dailyGoals'[todayIso].goals[l]
                            = GoalsOfSnapshot(inFlight[i].existingDailyGoal)[l]]_vars

\* Two updates have written one after the other: the first stored 30
\* minutes of English, the second, which had read before that, stored 0.
C20_Witness ==
    /\ inFlight = <<>>
    /\ Len(calls) = 2
    /\ calls[1].ok /\ calls[2].ok
    /\ calls[1].arg.goals["english"] = 30
    /\ calls[2].arg.goals["english"] = 0
    /\ calls[1].arg.visibility = calls[2].arg.visibility
    /\ dailyGoals[todayIso] = calls[2].arg

-----------------------------------------------------------------------------
(* The record store: saveRecord, deleteRecord and the History handlers that
   call them *)

MaxSessions == 2       \* number of sessionIds that exist in these runs

SessionIds == 1..MaxSessions

\* Variant: the record is put as it was passed.
completeRecordAsPassed(record) == record

\* The object saveRecord puts: channelName || null, channelLogo || null.
completeRecord(record) ==
    PlaybackRecord(record.sessionId, record.title, record.url, record.language,
                   record.duration, record.date,
                   IF Falsy(record.channelName) THEN <<>> ELSE record.channelName,
                   IF Falsy(record.channelLogo) THEN <<>> ELSE record.channelLogo)

\* Variant: every put adds a record under a key of its own.
putRecordAsNew(s, record) ==
    ((IF DOMAIN s = {} THEN record.sessionId
      ELSE SetMax(DOMAIN s \cup {record.sessionId}) + 1) :> completeRecord(record)) @@ s

\* store.put(completeRecord) on a store whose keyPath is "sessionId".
putRecord(s, record) == (record.sessionId :> completeRecord(record)) @@ s

\* store.delete(sessionId)
deleteFrom(s, sessionId) == [k \in DOMAIN s \ {sessionId} |-> s[k]]

RECURSIVE saveEach(_, _, _)
\* for (const record of data.records) await saveRecord(record)
saveEach(s, log, rs) ==
    IF rs = <<>> THEN [store |-> s, calls |-> log]
    ELSE saveEach(putRecord(s, Head(rs)),
                  Append(log, WriteCall("saveRecord", Head(rs), TRUE)), Tail(rs))

RECURSIVE deleteEachPastFailure(_, _, _, _)
\* Variant: a failed deleteRecord is skipped and the loop goes on.
deleteEachPastFailure(s, log, ids, failAt) ==
    IF ids = <<>> THEN [store |-> s, calls |-> log, failed |-> failAt < 1]
    ELSE IF failAt = 1
         THEN deleteEachPastFailure(s,
                  Append(log, WriteCall("deleteRecord", Head(ids), FALSE)),
                  Tail(ids), failAt - 1)
         ELSE deleteEachPastFailure(deleteFrom(s, Head(ids)),
                  Append(log, WriteCall("deleteRecord", Head(ids), TRUE)),
                  Tail(ids), failAt - 1)

RECURSIVE deleteEach(_, _, _, _)
\* for (const sessionId of uniqueIds) await deleteRecord(sessionId), where
\* the failAt-th call rejects (none when failAt is 0): the rejection leaves
\* the loop.
deleteEach(s, log, ids, failAt) ==
    IF ids = <<>> THEN [store |-> s, calls |-> log, failed |-> FALSE]
    ELSE IF failAt = 1
         THEN [store |-> s,
               calls |-> Append(log, WriteCall("deleteRecord", Head(ids), FALSE)),
               failed |-> TRUE]
         ELSE deleteEach(deleteFrom(s, Head(ids)),
                         Append(log, WriteCall("deleteRecord", Head(ids), TRUE)),
                         Tail(ids), failAt - 1)

RECURSIVE unique(_)
\* Array.from(new Set(ids)): the first occurrence of each id, in order.
unique(ids) ==
    IF ids = <<>> THEN <<>>
    ELSE LET front == unique(SubSeq(ids, 1, Len(ids) - 1))
             last == ids[Len(ids)]
         IN IF last \in Range(front) THEN front ELSE Append(front, last)

\* new Date("YYYY-MM-DD").getTime(): UTC midnight of the day.
DayStart(dayNumber) == (dayNumber - RefEpochDay) * MsPerDay

\* The fields of a submitted entry form; each is <<>> when left empty (for
\* the duration: when parseInt gives NaN) and <<value>> otherwise.
EntryForm(date, title, url, durationMinutes, language) ==
    [date |-> date, title |-> title, url |-> url,
     durationMinutes |-> durationMinutes, language |-> language]

\* Variant: a duration of 0 minutes passes.
formIncompleteUnlessZero(form) ==
    \/ form.date = <<>>
    \/ Falsy(form.title)
    \/ form.durationMinutes = <<>>
    \/ form.language = <<>>

\* !date || !title || !durationMinutes || !language
formIncomplete(form) ==
    \/ form.date = <<>>
    \/ Falsy(form.title)
    \/ form.durationMinutes = <<>> \/ form.durationMinutes[1] = 0
    \/ form.language = <<>>

\* The rows of the records list: the display records of visible languages.
filteredDisplayRecords ==
    LET shown(record) == record.language \in DOMAIN languageVisibility
                         /\ languageVisibility[record.language]
    IN SelectSeq(displayRecords, shown)

\* "Manual entry" button of the settings tab.
setShowManualEntry(shown) ==
    /\ ~loading
    /\ activeTab = "settings" \/ showManualEntry
    /\ editingRecord = <<>>
    /\ shown # showManualEntry
    /\ showManualEntry' = shown
    /\ UNCHANGED <<tz, callVars, queryVars, heap, connectionVars, serviceVars, store,
                   dailyGoals, loading,
                   activeTab, records, mergeDisplay, languageFilter, dateFilter,
                   goalInputs, dailyDurations, languageVisibility, selectedRecords,
                   editingRecord>>

\* Submission of the manual entry form; generateSessionId gives sessionId.
handleManualEntry(form, sessionId) ==
    /\ ~loading
    /\ showManualEntry
    /\ sessionId \notin DOMAIN store
    /\ IF formIncomplete(form)
       THEN /\ calls' = <<>>
            /\ UNCHANGED <<store, showManualEntry, records>>
       ELSE LET record ==
                    [sessionId |-> sessionId,
                     duration |-> form.durationMinutes[1] * 60,
                     title |-> form.title[1],
                     language |-> form.language[1],
                     date |-> DayStart(form.date[1]),
                     url |-> IF Falsy(form.url) THEN ManualUrl ELSE form.url[1],
                     channelName |-> <<>>, channelLogo |-> <<>>]
            IN /\ store' = putRecord(store, record)
               /\ calls' = <<WriteCall("saveRecord", record, TRUE)>>
               /\ showManualEntry' = FALSE
               /\ records' = loadedRecords(store', languageFilter, dateFilter)
    /\ UNCHANGED <<tz, callVars, queryVars, heap, connectionVars, inFlight, dailyGoals,
                   loading, activeTab,
                   mergeDisplay, languageFilter, dateFilter, goalInputs,
                   dailyDurations, languageVisibility, selectedRecords, editingRecord>>

\* A parsed import file: version and records are <<>> when missing;
\* recordsIsArray tells whether data.records is an array.
ImportDocument(version, recordsIsArray, rs) ==
    [version |-> version, recordsIsArray |-> recordsIsArray, records |-> rs]

\* !data.version || !data.records || !Array.isArray(data.records)
documentInvalid(data) ==
    Falsy(data.version) \/ data.records = <<>> \/ ~data.recordsIsArray

\* Variant: the goals of the file are saved as well.
importDataRestoringGoals(data) ==
    /\ ~loading
    /\ activeTab = "settings"
    /\ noModal
    /\ dailyGoals' =
          IF documentInvalid(data) \/ "goals" \notin DOMAIN data THEN dailyGoals
          ELSE [d \in DOMAIN dailyGoals \cup Range([i \in DOMAIN data.goals |-> data.goals[i].date]) |->
                   IF \E i \in DOMAIN data.goals : data.goals[i].date = d
                   THEN data.goals[CHOOSE i \in DOMAIN data.goals : data.goals[i].date = d]
                   ELSE dailyGoals[d]]
    /\ IF documentInvalid(data)
       THEN /\ calls' = <<>>
            /\ UNCHANGED <<store, records>>
       ELSE LET saved == saveEach(store, <<>>, data.records[1])
            IN /\ store' = saved.store
               /\ calls' = saved.calls
               /\ records' = loadedRecords(store', languageFilter, dateFilter)
    /\ UNCHANGED <<tz, callVars, queryVars, heap, connectionVars, formVars, inFlight,
                   loading, activeTab, mergeDisplay, languageFilter, dateFilter,
                   goalInputs, dailyDurations, languageVisibility>>

\* The file input of the settings tab.
importData(data) ==
    /\ ~loading
    /\ activeTab = "settings"
    /\ noModal
    /\ IF documentInvalid(data)
       THEN /\ calls' = <<>>
            /\ UNCHANGED <<store, records>>
       ELSE LET saved == saveEach(store, <<>>, data.records[1])
            IN /\ store' = saved.store
               /\ calls' = saved.calls
               /\ records' = loadedRecords(store', languageFilter, dateFilter)
    /\ UNCHANGED <<tz, callVars, queryVars, heap, connectionVars, formVars, inFlight,
                   dailyGoals, loading,
                   activeTab, mergeDisplay, languageFilter, dateFilter, goalInputs,
                   dailyDurations, languageVisibility>>

\* A click on a row of the records list, whose mergedSessionIds are ids.
toggleRecordSelection(ids) ==
    /\ calendarMounted
    /\ noModal
    /\ LET allSelected == \A i \in DOMAIN ids : ids[i] \in Range(selectedRecords)
           kept(id) == id \notin Range(ids)
           new(id) == id \notin Range(selectedRecords)
       IN selectedRecords' =
             IF allSelected THEN SelectSeq(selectedRecords, kept)
             ELSE selectedRecords \o SelectSeq(unique(ids), new)
    /\ UNCHANGED <<tz, callVars, queryVars, heap, connectionVars, serviceVars, store,
                   dailyGoals, loading,
                   activeTab, records, mergeDisplay, languageFilter, dateFilter,
                   goalInputs, dailyDurations, languageVisibility, editingRecord,
                   showManualEntry>>

\* "Delete" on a row, whose mergedSessionIds are sessionIds: the user answers the confirm dialog, and the failAt-th
\* deleteRecord call rejects (none when failAt is 0).
deleteRecordGroup(sessionIds, confirmed, failAt) ==
    /\ calendarMounted
    /\ noModal
    /\ failAt <= Len(unique(sessionIds))
    /\ IF Len(sessionIds) = 0 \/ ~confirmed
       THEN /\ failAt = 0
            /\ calls' = <<>>
            /\ UNCHANGED <<store, selectedRecords, records>>
       ELSE LET uniqueIds == unique(sessionIds)
                done == deleteEach(store, <<>>, uniqueIds, failAt)
                kept(id) == id \notin Range(uniqueIds)
            IN /\ store' = done.store
               /\ calls' = done.calls
               /\ IF done.failed
                  THEN UNCHANGED <<selectedRecords, records>>
                  ELSE /\ selectedRecords' = SelectSeq(selectedRecords, kept)
                       /\ records' = loadedRecords(store', languageFilter, dateFilter)
    /\ UNCHANGED <<tz, callVars, queryVars, heap, connectionVars, inFlight, dailyGoals,
                   loading, activeTab,
                   mergeDisplay, languageFilter, dateFilter, goalInputs,
                   dailyDurations, languageVisibility, editingRecord, showManualEntry>>

\* "Batch Delete", shown while records are selected.
batchDelete(confirmed, failAt) ==
    /\ calendarMounted
    /\ noModal
    /\ Len(selectedRecords) # 0
    /\ failAt <= Len(unique(selectedRecords))
    /\ IF ~confirmed
       THEN /\ failAt = 0
            /\ calls' = <<>>
            /\ UNCHANGED <<store, selectedRecords, records>>
       ELSE LET done == deleteEach(store, <<>>, unique(selectedRecords), failAt)
            IN /\ store' = done.store
               /\ calls' = done.calls
               /\ IF done.failed
                  THEN UNCHANGED <<selectedRecords, records>>
                  ELSE /\ selectedRecords' = <<>>
                       /\ records' = loadedRecords(store', languageFilter, dateFilter)
    /\ UNCHANGED <<tz, callVars, queryVars, heap, connectionVars, inFlight, dailyGoals,
                   loading, activeTab,
                   mergeDisplay, languageFilter, dateFilter, goalInputs,
                   dailyDurations, languageVisibility, editingRecord, showManualEntry>>

\* "Edit" on a row (the button of a merged row is disabled): the row's
\* DisplayRecord becomes the record being edited.
editRecord(record) ==
    /\ calendarMounted
    /\ noModal
    /\ editingRecord' = <<record>>
    /\ UNCHANGED <<tz, callVars, queryVars, heap, connectionVars, serviceVars, store,
                   dailyGoals, loading,
                   activeTab, records, mergeDisplay, languageFilter, dateFilter,
                   goalInputs, dailyDurations, languageVisibility, selectedRecords,
                   showManualEntry>>

\* Variant: duration and date are always rebuilt from the form.
updatedRecordFromForm(editing, form) ==
    [editing EXCEPT
       !.title = form.title[1],
       !.url = IF Falsy(form.url) THEN editing.url ELSE form.url[1],
       !.duration = form.durationMinutes[1] * 60,
       !.language = form.language[1],
       !.date = DayStart(form.date[1])]

\* The record handleEditEntry saves for a complete form.
updatedRecord(editing, form) ==
    LET originalDurationMinutes == editing.duration \div 60
        originalDate == UtcDayNumber(editing.date)
        inputDate == form.date[1]
    IN [editing EXCEPT
          !.title = form.title[1],
          !.url = IF Falsy(form.url) THEN editing.url ELSE form.url[1],
          !.duration = IF form.durationMinutes[1] = originalDurationMinutes
                       THEN editing.duration ELSE form.durationMinutes[1] * 60,
          !.language = form.language[1],
          !.date = IF inputDate = originalDate THEN editing.date
                   ELSE DayStart(form.date[1])]

\* Submission of the edit form.
handleEditEntry(form) ==
    /\ ~loading
    /\ editingRecord # <<>>
    /\ IF formIncomplete(form)
       THEN /\ calls' = <<>>
            /\ UNCHANGED <<store, editingRecord, records>>
       ELSE LET record == updatedRecord(editingRecord[1], form)
            IN /\ store' = putRecord(store, record)
               /\ calls' = <<WriteCall("saveRecord", record, TRUE)>>
               /\ editingRecord' = <<>>
               /\ records' = loadedRecords(store', languageFilter, dateFilter)
    /\ UNCHANGED <<tz, callVars, queryVars, heap, connectionVars, inFlight, dailyGoals,
                   loading, activeTab,
                   mergeDisplay, languageFilter, dateFilter, goalInputs,
                   dailyDurations, languageVisibility, selectedRecords,
                   showManualEntry>>

\* Forms: title "a", English, on 2024-03-01 for 1 minute or on 2024-03-02
\* for 2 minutes; and forms with one required field left out or a duration
\* of 0.
CompleteForms ==
    { EntryForm(<<RefEpochDay>>, << <<"a">> >>, <<>>, <<1>>, <<"english">>),
      EntryForm(<<RefEpochDay + 1>>, << <<"a">> >>, <<>>, <<2>>, <<"english">>) }

IncompleteForms ==
    { EntryForm(<<>>, << <<"a">> >>, <<>>, <<1>>, <<"english">>),
      EntryForm(<<RefEpochDay>>, <<>>, <<>>, <<1>>, <<"english">>),
      EntryForm(<<RefEpochDay>>, << <<"a">> >>, <<>>, <<>>, <<"english">>),
      EntryForm(<<RefEpochDay>>, << <<"a">> >>, <<>>, <<0>>, <<"english">>),
      EntryForm(<<RefEpochDay>>, << <<"a">> >>, <<>>, <<1>>, <<>>) }

EntryForms == CompleteForms \cup IncompleteForms

\* An exported record of a session: title "a", English, no channel.
ImportedRecord(sessionId, dayNumber, duration) ==
    PlaybackRecord(sessionId, <<"a">>, ManualUrl, "english", duration,
                   DayStart(dayNumber), <<>>, <<>>)

\* generateSessionId returns an id no stored record carries; the least
\* unused one stands for it.
FreshSessionIds ==
    IF SessionIds \subseteq DOMAIN store THEN {}
    ELSE {SetMin(SessionIds \ DOMAIN store)}

\* Import files: one session twice with different contents; two sessions;
\* no version; records that are not an array; no records.
ImportDocuments ==
    { ImportDocument(<< <<"1", ".", "0">> >>, TRUE,
          << << ImportedRecord(1, RefEpochDay, 60),
                ImportedRecord(1, RefEpochDay + 1, 120) >> >>),
      ImportDocument(<< <<"1", ".", "0">> >>, TRUE,
          << << ImportedRecord(1, RefEpochDay, 60),
                ImportedRecord(MaxSessions, RefEpochDay, 60) >> >>),
      ImportDocument(<<>>, TRUE, << << ImportedRecord(1, RefEpochDay, 60) >> >>),
      ImportDocument(<< <<"1", ".", "0">> >>, FALSE, << << ImportedRecord(1, RefEpochDay, 60) >> >>),
      ImportDocument(<< <<"1", ".", "0">> >>, FALSE, <<>>) }

NextRecords ==
    \/ Mount
    \/ \E tab \in Tabs : setActiveTab(tab)
    \/ \E shown \in BOOLEAN : setShowManualEntry(shown)
    \/ \E form \in EntryForms, sessionId \in FreshSessionIds :
          handleManualEntry(form, sessionId)
    \/ \E data \in ImportDocuments : importData(data)
    \/ \E row \in Range(filteredDisplayRecords) :
          toggleRecordSelection(row.mergedSessionIds)
    \/ \E row \in Range(filteredDisplayRecords), confirmed \in BOOLEAN,
          failAt \in 0..MaxSessions :
             deleteRecordGroup(row.mergedSessionIds, confirmed, failAt)
    \/ \E confirmed \in BOOLEAN, failAt \in 0..MaxSessions : batchDelete(confirmed, failAt)
    \/ \E row \in {r \in Range(filteredDisplayRecords) : ~r.isMerged} :
          editRecord(row)
    \/ \E form \in EntryForms : handleEditEntry(form)

InitRecords ==
    /\ tz = 0
    /\ argRecords = <<>> /\ argMerge = TRUE /\ result = <<>>
    /\ PageInit

SpecRecords == InitRecords /\ [][NextRecords]_vars

-----------------------------------------------------------------------------
(* Properties of the record store *)

RecordsWithId(s, sessionId) == {k \in DOMAIN s : s[k].sessionId = sessionId}

SavedIds(log) == {log[i].arg.sessionId : i \in {j \in DOMAIN log : log[j].op = "saveRecord"}}

\* What every step that saves records does to the store: the record saved
\* last under a sessionId is the one record stored with it, the others are
\* left alone, and no sessionId is stored twice.
UpsertBySessionId ==
    (calls' # <<>> /\ calls'[1].op = "saveRecord") =>
        /\ \A i \in DOMAIN calls' :
              (\A j \in DOMAIN calls' :
                   j > i => calls'[j].arg.sessionId # calls'[i].arg.sessionId) =>
                 /\ Cardinality(RecordsWithId(store', calls'[i].arg.sessionId)) = 1
                 /\ \A k \in RecordsWithId(store', calls'[i].arg.sessionId) :
                       \A f \in {"sessionId", "title", "url", "language", "duration", "date"} :
                           store'[k][f] = calls'[i].arg[f]
        /\ \A k \in DOMAIN store :
              store[k].sessionId \notin SavedIds(calls') =>
                  k \in DOMAIN store' /\ store'[k] = store[k]
        /\ \A id \in SessionIds : Cardinality(RecordsWithId(store', id)) <= 1

\* The edit form has been submitted and its record saved.
EditSaved == editingRecord # <<>> /\ editingRecord' = <<>>

StoppedAt(ids, failAt) ==
    /\ \A j \in 1..(failAt - 1) : ids[j] \notin DOMAIN store'
    /\ \A j \in failAt..Len(ids) :
          /\ ids[j] \in DOMAIN store' <=> ids[j] \in DOMAIN store
          /\ ids[j] \in DOMAIN store => store'[ids[j]] = store[ids[j]]
    /\ \A k \in DOMAIN store \ Range(ids) : k \in DOMAIN store' /\ store'[k] = store[k]
    /\ Len(calls') = failAt
    /\ \A j \in 1..failAt :
          /\ calls'[j].op = "deleteRecord"
          /\ calls'[j].arg = ids[j]
          /\ calls'[j].ok <=> j < failAt

\* The step touched the store or made calls, and a deleteRecord call it made
\* failed.
DeleteFailed ==
    /\ store' # store \/ calls' # calls
    /\ \E i \in DOMAIN calls' : calls'[i].op = "deleteRecord" /\ ~calls'[i].ok

\* C15: when deleteRecord fails on the k-th id of a group or batch delete,
\* the ids before it are deleted, the k-th and the later ones stay stored,
\* and no further deleteRecord call is made.
C15_DeleteNotAtomic ==
    [][DeleteFailed =>
          /\ \A row \in Range(filteredDisplayRecords), failAt \in 1..MaxSessions :
                deleteRecordGroup(row.mergedSessionIds, TRUE, failAt) =>
                    StoppedAt(unique(row.mergedSessionIds), failAt)
          /\ \A failAt \in 1..MaxSessions :
                batchDelete(TRUE, failAt) =>
                    StoppedAt(unique(selectedRecords), failAt)]_vars

\* The second deleteRecord call of a delete failed: its record is stored,
\* the first one's is not, and the list still shows both.
C15_Witness ==
    /\ Len(calls) = 2
    /\ calls[1].op = "deleteRecord" /\ calls[1].ok
    /\ calls[2].op = "deleteRecord" /\ ~calls[2].ok
    /\ calls[1].arg \notin DOMAIN store
    /\ calls[2].arg \in DOMAIN store
    /\ Len(records) = 2

\* C16: a manual entry or an edit lacking a required field, and an import
\* file without version or whose records are not an array, make no
\* saveRecord call and leave the store as it is.
C16_ValidationFirst ==
    [][/\ \A form \in IncompleteForms, sessionId \in SessionIds :
             handleManualEntry(form, sessionId) => (store' = store /\ calls' = <<>>)
       /\ \A form \in IncompleteForms :
             handleEditEntry(form) => (store' = store /\ calls' = <<>>)
       /\ \A data \in ImportDocuments :
             (importData(data)
                /\ (Falsy(data.version) \/ data.records = <<>> \/ ~data.recordsIsArray))
                   => (store' = store /\ calls' = <<>>)]_vars

\* The manual entry form is still open over a store with records, and the
\* latest handler made no call.
C16_Witness ==
    /\ showManualEntry
    /\ calls = <<>>
    /\ store # <<>>
    /\ records # <<>>

-----------------------------------------------------------------------------
(* Properties of the loaded records and of the goal a day is measured by *)

\* C17: the records History passes to buildDisplayRecords are sorted by
\* date, the latest first.
C17_SortedLatestFirst ==
    \A i, j \in DOMAIN records : i < j => records[i].date >= records[j].date

\* C17 as stated: they are sorted by date, the earliest first.
C17_SortedAscending ==
    \A i, j \in DOMAIN records : i < j => records[i].date <= records[j].date

\* Two records were loaded, and the one stored under the later key, which
\* getAll returns last, carries the later date and comes first.
C17_Witness ==
    /\ ~loading
    /\ Len(records) = 2
    /\ records[1].sessionId > records[2].sessionId
    /\ records[1].date > records[2].date
    /\ displayRecords = buildDisplayRecords(records, mergeDisplay)

\* The goal minutes of a language in the snapshot applicable to a day: the
\* latest DailyGoal dated on or before it, or the default.
SnapshotGoal(dayNumber, l) ==
    LET snapshot == LatestNotAfter(dailyGoals, dayNumber)
    IN IF snapshot = <<>> THEN DEFAULT_DAILY_GOAL[l]
       ELSE IF l \in DOMAIN snapshot[1].goals THEN snapshot[1].goals[l] ELSE 0

\* C18: a day cell marks a language achieved iff the day's total reaches the
\* language's goal in the snapshot applicable to that day.
C18_GoalOfTheDay ==
    calendarMounted =>
        \A d \in DayRange :
            DateKey(d) \in DOMAIN dailyDurations =>
                \A l \in cellLanguages(DateKey(d)) \cap KnownLanguages :
                    MarkedAchieved(DateKey(d), l)
                        <=> achieved(SnapshotGoal(d, l), CellSeconds(DateKey(d), l))

-----------------------------------------------------------------------------
(* One call of buildDisplayRecords followed on the objects it works on *)

\* Variant: the derived fields are assigned onto the record itself.
assignOnto(h, address) ==
    [heap |-> [h EXCEPT ![address] = singleDisplayRecord(h[address])],
     address |-> address]

\* { ...record, mergedSessionIds: [record.sessionId], ... }: a new object at
\* the next free address.
spreadRecord(h, address) ==
    [heap |-> Append(h, singleDisplayRecord(h[address])), address |-> Len(h) + 1]

\* pushCurrent(current): merged.push({ ...record, isMerged }), a new object.
pushCurrentOnHeap(st) ==
    IF st.current = <<>> THEN st
    ELSE [st EXCEPT
            !.heap = Append(@, pushCurrent(<<>>, <<st.heap[st.current[1]]>>)[1]),
            !.merged = Append(@, Len(st.heap) + 1)]

\* One iteration of records.forEach: the accumulator `current` is an address,
\* and a merge writes to the object it points at.
forEachStepOnHeap(st, address) ==
    LET record == st.heap[address]
    IN IF st.current # <<>>
          /\ shouldMerge(st.heap[st.current[1]], st.lastMergedDate, record)
       THEN [st EXCEPT
               !.heap = [@ EXCEPT ![st.current[1]] = mergeInto(@, record)],
               !.lastMergedDate = <<record.date>>]
       ELSE LET pushed == pushCurrentOnHeap(st)
                made == spreadRecord(pushed.heap, address)
            IN [heap |-> made.heap, merged |-> pushed.merged,
                current |-> <<made.address>>, lastMergedDate |-> <<record.date>>]

RECURSIVE forEachOnHeap(_, _)
forEachOnHeap(st, addresses) ==
    IF addresses = <<>> THEN st
    ELSE forEachOnHeap(forEachStepOnHeap(st, Head(addresses)), Tail(addresses))

RECURSIVE mapOnHeap(_, _)
\* records.map((record) => ({ ...record, ... }))
mapOnHeap(st, addresses) ==
    IF addresses = <<>> THEN st
    ELSE LET made == spreadRecord(st.heap, Head(addresses))
         IN mapOnHeap([st EXCEPT !.heap = made.heap,
                                 !.merged = Append(@, made.address)],
                      Tail(addresses))

\* buildDisplayRecords on a heap whose first addresses hold the records of
\* the argument, in order.
buildOnHeap(rs, mergeConsecutive) ==
    LET start == [heap |-> rs, merged |-> <<>>, current |-> <<>>,
                  lastMergedDate |-> <<>>]
        addresses == [i \in DOMAIN rs |-> i]
    IN IF ~mergeConsecutive THEN mapOnHeap(start, addresses)
       ELSE pushCurrentOnHeap(forEachOnHeap(start, addresses))

\* Channel names: none, " " and "C"; channel logos: none, "" and two others.
BackfillNames == {<<>>, << <<" ">> >>, << <<"C">> >>}
BackfillLogos == {<<>>, << <<>> >>, << <<"x">> >>, << <<"y">> >>}
BackfillChoices == [channelName : BackfillNames, channelLogo : BackfillLogos]

\* Records of title "a" played at 10:00, the i-th carrying sessionId i.
BackfillArgument(f) ==
    [i \in DOMAIN f |->
        PlaybackRecord(i, <<"a">>, ManualUrl, "english", 300, At(10, 0),
                       f[i].channelName, f[i].channelLogo)]

InitBackfill ==
    /\ tz = 0
    /\ argRecords \in {BackfillArgument(f) : f \in SeqsUpTo(BackfillChoices, MaxRecords)}
    /\ argMerge \in BOOLEAN
    /\ result = <<>>
    /\ PageInit

CallOnHeap ==
    /\ result = <<>>
    /\ LET run == buildOnHeap(argRecords, argMerge)
       IN /\ heap' = run.heap
          /\ result' = <<[g \in DOMAIN run.merged |-> run.heap[run.merged[g]]]>>
    /\ UNCHANGED <<tz, argRecords, argMerge, pageVars, queryVars, connectionVars>>

NextBackfill == CallOnHeap

SpecBackfill == InitBackfill /\ [][NextBackfill]_vars

-----------------------------------------------------------------------------
(* Properties of the backfill and of the input objects *)

\* The first constituent of a DisplayRecord, in input order, whose field is
\* not empty, if there is one.
FirstNonEmpty(d, field) ==
    LET having == {i \in Constituents(d) : ~Falsy(argRecords[i][field])}
    IN IF having = {} THEN <<>> ELSE <<SetMin(having)>>

\* C22: the channelLogo (and the channelName) of an emitted DisplayRecord is
\* that of the first of its constituents, in input order, that has a
\* non-empty one, and is empty when none has.
C22_Backfill ==
    Returned =>
        \A g \in DOMAIN Out : \A field \in {"channelName", "channelLogo"} :
            LET first == FirstNonEmpty(Out[g], field)
            IN IF first = <<>> THEN Falsy(Out[g][field])
               ELSE Out[g][field] = argRecords[first[1]][field]

\* A group of three: no logo, then logo "x", then logo "y"; the group shows
\* "x", and the name " " of the second record.
C22_Witness ==
    /\ Returned /\ argMerge
    /\ Len(argRecords) = 3 /\ Len(Out) = 1
    /\ argRecords[1].channelLogo = <<>> /\ argRecords[1].channelName = <<>>
    /\ argRecords[2].channelLogo = << <<"x">> >>
    /\ argRecords[2].channelName = << <<" ">> >>
    /\ argRecords[3].channelLogo = << <<"y">> >>
    /\ Out[1].channelLogo = << <<"x">> >>
    /\ Out[1].channelName = << <<" ">> >>

\* The loop state after the first k records of the argument.
LoopAfter(k) ==
    forEachRecords([merged |-> <<>>, current |-> <<>>, lastMergedDate |-> <<>>],
                   SubSeq(argRecords, 1, k))

\* C26: at every point of the loop the accumulator has the merge key of the
\* record that started it, and every constituent of an emitted DisplayRecord
\* has the merge key of the first record of its group.
C26_KeyStable ==
    (Returned /\ argMerge) =>
        /\ \A k \in DOMAIN argRecords :
              LET current == LoopAfter(k).current[1]
              IN getVideoKey(current) = getVideoKey(argRecords[current.mergedSessionIds[1]])
        /\ \A g \in DOMAIN Out : \A i \in Constituents(Out[g]) :
              /\ getVideoKey(argRecords[i]) = getVideoKey(argRecords[Out[g].mergedSessionIds[1]])
              /\ getVideoKey(Out[g]) = getVideoKey(argRecords[i])

\* The accumulator started without a channel name and took the name " "
\* from the second record; the third record still joined the group.
C26_Witness ==
    /\ Returned /\ argMerge
    /\ Len(argRecords) = 3
    /\ argRecords[1].channelName = <<>>
    /\ argRecords[2].channelName = << <<" ">> >>
    /\ argRecords[3].channelName = <<>>
    /\ LoopAfter(2).current[1].channelName = << <<" ">> >>
    /\ Len(Out) = 1
    /\ Len(Out[1].mergedSessionIds) = 3

\* C28: after the call the objects of the argument hold the field values
\* they held before, in the same order, in both merge modes.
C28_InputUntouched ==
    Returned =>
        /\ Len(heap) >= Len(argRecords)
        /\ SubSeq(heap, 1, Len(argRecords)) = argRecords
        /\ Out = buildDisplayRecords(argRecords, argMerge)

\* The first record started a group and has neither name nor logo; the
\* group received both from the second record, the first record did not.
C28_Witness ==
    /\ Returned /\ argMerge
    /\ Len(argRecords) = 2 /\ Len(Out) = 1
    /\ argRecords[1].channelLogo = <<>> /\ argRecords[1].channelName = <<>>
    /\ Out[1].channelLogo = << <<"x">> >>
    /\ Out[1].channelName = << <<" ">> >>
    /\ heap[1].channelLogo = <<>> /\ heap[1].channelName = <<>>

-----------------------------------------------------------------------------
(* Imports and edits of records whose values are not those of the forms *)

\* An exported record of 90 s played at 10:30 UTC on 2024-03-01, and a
\* record of another session carrying a negative duration.
OddRecord ==
    PlaybackRecord(1, <<"a">>, ManualUrl, "english", 90, At(10, 30), <<>>, <<>>)

NegativeRecord ==
    PlaybackRecord(2, <<"a">>, ManualUrl, "english", 0 - 60, At(34, 30), <<>>, <<>>)

\* Import files: an export of the odd record with a goals array; a file
\* with the negative duration; the first one without its version.
IntakeDocuments ==
    { ImportDocument(<< <<"1", ".", "0">> >>, TRUE, << <<OddRecord>> >>)
          @@ [goals |-> <<DailyGoalOf(todayIso, 30)>>],
      ImportDocument(<< <<"1", ".", "0">> >>, TRUE, << <<NegativeRecord>> >>),
      ImportDocument(<<>>, TRUE, << <<OddRecord>> >>)
          @@ [goals |-> <<DailyGoalOf(todayIso, 30)>>] }

\* Edit forms: title "a", English, 2024-03-01 or 2024-03-02, 1 or 2 minutes.
IntakeForms ==
    { EntryForm(<<d>>, << <<"a">> >>, <<>>, <<m>>, <<"english">>) :
          d \in {RefEpochDay, RefEpochDay + 1}, m \in {1, 2} }

NextIntake ==
    \/ Mount
    \/ \E tab \in Tabs : setActiveTab(tab)
    \/ \E checked \in BOOLEAN : setMergeDisplay(checked)
    \/ \E data \in IntakeDocuments : importData(data)
    \/ \E row \in {r \in Range(filteredDisplayRecords) : ~r.isMerged} :
          editRecord(row)
    \/ \E form \in IntakeForms : handleEditEntry(form)

InitIntake ==
    /\ tz = 0
    /\ argRecords = <<>> /\ argMerge = TRUE /\ result = <<>>
    /\ store = EmptyStore
    /\ dailyGoals \in EarlierGoalStores
    /\ ComponentInit
    /\ IdleInit

SpecIntake == InitIntake /\ [][NextIntake]_vars

-----------------------------------------------------------------------------
(* Properties of what imports and edits store *)

DerivedFields == {"mergedSessionIds", "totalDuration", "startDate", "spanStart",
                  "spanEnd", "segments", "isMerged"}

\* The raw record of the list that the row being edited was built from.
ListedRecord(sessionId) ==
    records[CHOOSE i \in DOMAIN records : records[i].sessionId = sessionId]

\* C23: no stored record carries a derived field, the record being edited
\* is a DisplayRecord of one raw record, and what an edit stores is computed
\* from that raw record's duration and date.
C23_NoDisplayRecordStored ==
    [][/\ \A k \in DOMAIN store' : DOMAIN store'[k] \cap DerivedFields = {}
       /\ editingRecord' # <<>> =>
             /\ ~editingRecord'[1].isMerged
             /\ editingRecord'[1].mergedSessionIds = <<editingRecord'[1].sessionId>>
       /\ EditSaved =>
             LET e == editingRecord[1]
                 raw == ListedRecord(e.sessionId)
                 written == store'[e.sessionId]
             IN /\ written.duration = raw.duration \/ written.duration % 60 = 0
                /\ written.date = raw.date \/ written.date % MsPerDay = 0]_vars

\* An edit handed a DisplayRecord to saveRecord, and the store holds the
\* record without the derived fields.
C23_Witness ==
    /\ Len(calls) = 1
    /\ calls[1].op = "saveRecord"
    /\ DerivedFields \subseteq DOMAIN calls[1].arg
    /\ calls[1].arg.sessionId \in DOMAIN store
    /\ DOMAIN store[calls[1].arg.sessionId] = rawFields
    /\ store[calls[1].arg.sessionId].duration = 120

\* C24: every stored record has a duration of at least 0.
C24_DurationNotNegative ==
    \A k \in DOMAIN store : store[k].duration >= 0

\* C29: an import, accepted or rejected, leaves the stored DailyGoal
\* documents as they are, whether or not the file carries goals.
C29_ImportKeepsGoals ==
    [][activeTab = "settings" =>
          \A data \in IntakeDocuments : importData(data) => dailyGoals' = dailyGoals]_vars

\* The export with a goals array was imported into empty stores: its record
\* is stored, no goal is.
C29_Witness ==
    /\ calls = <<WriteCall("saveRecord", OddRecord, TRUE)>>
    /\ 1 \in DOMAIN store
    /\ dailyGoals = EmptyStore

\* The whole minutes of a duration, and whether a form holds the values the
\* edit form is opened with for a record.
WholeMinutes(duration) == CHOOSE m \in -2..60 : 60 * m <= duration /\ duration < 60 * m + 60

Prefilled(record, form) ==
    /\ form.date = <<UtcDayNumber(record.date)>>
    /\ form.durationMinutes = <<WholeMinutes(record.duration)>>
    /\ form.title = <<record.title>>
    /\ form.language = <<record.language>>

\* C30: an edit replaces the duration by minutes * 60 only when the entered
\* minutes differ from the record's whole minutes, and the date only when
\* the entered day differs from the record's day; with the prefilled values
\* both stay exactly as stored.
C30_EditKeepsExact ==
    [][editingRecord # <<>> =>
          \A form \in IntakeForms :
              handleEditEntry(form) =>
                  LET e == editingRecord[1]
                      written == store'[e.sessionId]
                  IN /\ written.duration =
                          IF form.durationMinutes[1] = WholeMinutes(e.duration)
                          THEN e.duration ELSE 60 * form.durationMinutes[1]
                     /\ written.date =
                          IF form.date[1] = UtcDayNumber(e.date)
                          THEN e.date ELSE DayStart(form.date[1])
                     /\ Prefilled(e, form) =>
                          /\ written.duration = e.duration
                          /\ written.date = e.date]_vars

\* The record of 90 s at 10:30 was edited with the prefilled values and is
\* stored with exactly that duration and instant.
C30_Witness ==
    /\ Len(calls) = 1
    /\ calls[1].op = "saveRecord"
    /\ "isMerged" \in DOMAIN calls[1].arg
    /\ calls[1].arg.sessionId = 1
    /\ editingRecord = <<>>
    /\ store[1] = OddRecord

-----------------------------------------------------------------------------
(* The Calendar's map after a completed change of the store *)

\* A handler changed the store and none of its store calls failed.
StoreChanged ==
    /\ store' # store
    /\ \A i \in DOMAIN calls' : calls'[i].ok

\* C27: after an add, edit, delete, batch delete or import that completed,
\* the per-day totals of the mounted Calendar are those of the records in
\* the store.
C27_CalendarFollowsStore ==
    [][StoreChanged /\ calendarMounted' =>
          dailyDurations' = updatedDailyDurations(store')]_vars

-----------------------------------------------------------------------------
(* The connection of IndexedDBService under concurrent operations *)

MaxOperations == 3     \* most store operations started in one run
MaxOpens == 3          \* most indexedDB.open calls made in one run

\* A store operation: where it stands in getDB, the open request it made
\* (0 when it made none) and the connection getDB returned to it.
Operation(pc, request, handle) == [pc |-> pc, request |-> request, handle |-> handle]

\* The connections whose open request has succeeded and that are not closed.
established ==
    {operations[i].request : i \in {j \in DOMAIN operations :
                                       operations[j].request # 0 /\ operations[j].handle # <<>>}}
        \ closed

\* getDB up to its first await: initDB returns this.db when it is set and
\* calls indexedDB.open otherwise; no pending open is remembered.
startOperation ==
    /\ Len(operations) < MaxOperations
    /\ IF db # <<>>
       THEN /\ operations' = Append(operations, Operation("ready", 0, db))
            /\ UNCHANGED <<opened, sinceEvent>>
       ELSE /\ opened < MaxOpens
            /\ opened' = opened + 1
            /\ sinceEvent' = sinceEvent + 1
            /\ operations' = Append(operations, Operation("opening", opened + 1, <<>>))
    /\ UNCHANGED <<tz, callVars, pageVars, queryVars, heap,
                   db, closed>>

\* request.onsuccess: this.db becomes the request's connection, and getDB
\* resumes with it.
onsuccess(i) ==
    /\ operations[i].pc = "opening"
    /\ db' = <<operations[i].request>>
    /\ operations' = [operations EXCEPT ![i] =
                         Operation("ready", @.request, <<@.request>>)]
    /\ UNCHANGED <<tz, callVars, pageVars, queryVars, heap,
                   opened, sinceEvent, closed>>

\* request.onerror: the operation is rejected.
onerror(i) ==
    /\ operations[i].pc = "opening"
    /\ operations' = [operations EXCEPT ![i] = Operation("failed", @.request, <<>>)]
    /\ UNCHANGED <<tz, callVars, pageVars, queryVars, heap,
                   db, opened, sinceEvent, closed>>

\* The operation runs its transaction on the connection it was given.
finishOperation(i) ==
    /\ operations[i].pc = "ready"
    /\ operations' = [operations EXCEPT ![i] = Operation("done", @.request, @.handle)]
    /\ UNCHANGED <<tz, callVars, pageVars, queryVars, heap,
                   db, opened, sinceEvent, closed>>

\* The close event of a connection: its handler clears this.db.
onclose(connection) ==
    /\ connection \in established
    /\ closed' = closed \cup {connection}
    /\ db' = <<>>
    /\ sinceEvent' = 0
    /\ UNCHANGED <<tz, callVars, pageVars, queryVars, heap,
                   opened, operations>>

\* The versionchange event of a connection: its handler closes this.db,
\* whichever connection that is, and clears it.
onversionchange(connection) ==
    /\ connection \in established
    /\ closed' = IF db = <<>> THEN closed ELSE closed \cup {db[1]}
    /\ db' = <<>>
    /\ sinceEvent' = 0
    /\ UNCHANGED <<tz, callVars, pageVars, queryVars, heap,
                   opened, operations>>

NextConnection ==
    \/ startOperation
    \/ \E i \in DOMAIN operations : onsuccess(i)
    \/ \E i \in DOMAIN operations : onerror(i)
    \/ \E i \in DOMAIN operations : finishOperation(i)
    \/ \E connection \in 1..MaxOpens : onclose(connection)
    \/ \E connection \in 1..MaxOpens : onversionchange(connection)

InitConnection ==
    /\ tz = 0
    /\ argRecords = <<>> /\ argMerge = TRUE /\ result = <<>>
    /\ PageInit

SpecConnection == InitConnection /\ [][NextConnection]_vars

\* C25: between two close or versionchange events the connection is opened
\* at most once, whatever the interleaving of the operations, and this.db
\* never holds a closed connection for a later operation to use.
C25_OpenedOnce ==
    /\ sinceEvent <= 1
    /\ db # <<>> => db[1] \notin closed

-----------------------------------------------------------------------------
(* Goal updates whose write may fail *)

NextFailure ==
    \/ Mount
    \/ \E tab \in Tabs : setActiveTab(tab)
    \/ \E language \in GoalLanguages : saveGoal(language)
    \/ \E language \in TypedLanguages : toggleLanguageVisibility(language)
    \/ \E i \in 1..MaxInFlight, ok \in BOOLEAN : completeGoalUpdate(i, ok)

SpecFailure == InitGoals /\ [][NextFailure]_vars

\* The only update under way fails, and nothing has touched the visibility
\* since it was started.
OnlyUpdateFails ==
    /\ Len(inFlight) = 1
    /\ inFlight' = <<>>
    /\ languageVisibility = languageVisibility'
    /\ calls' # calls
    /\ ~calls'[Len(calls')].ok
    /\ inFlight[1].op = "persist" =>
          languageVisibility[inFlight[1].language]
              = inFlight[1].dailyGoal.visibility[inFlight[1].language]

\* C21: when the store call of a goal save or of a visibility toggle fails,
\* the goal inputs, the language visibility, the record list, the selection
\* and the open forms are what they were before the action started; for a
\* toggle that is the visibility before the click.
C21_FailureKeepsState ==
    [][OnlyUpdateFails =>
          /\ UNCHANGED <<goalInputs, records, formVars>>
          /\ languageVisibility' =
                IF inFlight[1].op = "persist"
                THEN [languageVisibility EXCEPT ![inFlight[1].language] = ~@]
                ELSE languageVisibility]_vars

=============================================================================
